---- MODULE Spec2Model ----
(***************************************************************************)
(* PAYMINT content-script engine: platform profiles (Amazon, Netflix,      *)
(* Domino's), checkout extraction, pay-button injection, the debounced     *)
(* re-detection scheduler and the gift-code redemption protocol.           *)
(*                                                                         *)
(* Text is a sequence of one-character strings; money is an integer number *)
(* of cents (every amount the parsers accept has zero or two decimals).    *)
(***************************************************************************)
EXTENDS Integers, Sequences, FiniteSets, TLC

VARIABLES
    page,              \* the document: hostname, pathname and the elements that resolve
    pcall,             \* the call of a pure profile function and its result
    currentPlatform,   \* PaymintContentScript.currentPlatform
    payButton,         \* PaymintContentScript.payButton
    isInitialized,     \* PaymintContentScript.isInitialized
    observer,          \* PaymintContentScript.observer
    listening,         \* the chrome.runtime.onMessage listener is registered
    readyState,        \* document.readyState
    initPc,            \* where initialize() stands
    detectionTimeout,  \* the debounce timer of the observer callback
    loadTimeout,       \* the fallback timer of waitForPageLoad
    mounted,           \* the pay buttons attached to the document
    sent,              \* the messages sent to the background script, by type
    attempts,          \* the applyGiftCard calls, each with its position
    inputValue,        \* the value of the gift card input field
    hist,              \* history of the content script
    rhist,             \* history of the redemption protocol
    notifications,     \* the notifications shown to the user, by type
    lastPayment,       \* the last INITIATE_CRYPTO_PAYMENT message sent
    phist,             \* history of the pay flow
    monitoring,        \* TransactionMonitor.monitoring: hash -> interval handle
    timers,            \* the setInterval / setTimeout handles of the service worker
    polls,             \* the interval callbacks that stand at an await
    chromeNotifications, \* chrome.notifications, by notification id
    storedNotifications, \* the length of chrome.storage.local 'notifications'
    mhist,             \* history of the transaction monitor
    giftCards,         \* the backend's gift_cards table, by gift_card_id
    requests,          \* the redeem requests the backend has received
    serverTime         \* the backend's clock, in hours

redeemVars == <<attempts, inputValue, rhist>>
engineVars == <<currentPlatform, payButton, isInitialized, observer, listening, readyState,
                initPc, detectionTimeout, loadTimeout, mounted, hist>>
payVars == <<notifications, lastPayment, phist>>
monitorVars == <<monitoring, timers, polls, chromeNotifications, storedNotifications, mhist>>
backendVars == <<giftCards, requests, serverTime>>
serviceVars == <<monitorVars, backendVars>>
vars == <<page, pcall, sent, engineVars, redeemVars, payVars, serviceVars>>

(***************************************************************************)
(* Characters and the regular-expression matcher (JavaScript semantics:    *)
(* leftmost match, greedy quantifiers, backtracking in priority order).    *)
(***************************************************************************)
Digit == {"0", "1", "2", "3", "4", "5", "6", "7", "8", "9"}
Upper == {"A", "B", "C", "D", "E", "F", "G", "H", "I", "J", "K", "L", "M",
          "N", "O", "P", "Q", "R", "S", "T", "U", "V", "W", "X", "Y", "Z"}
Lower == {"a", "b", "c", "d", "e", "f", "g", "h", "i", "j", "k", "l", "m",
          "n", "o", "p", "q", "r", "s", "t", "u", "v", "w", "x", "y", "z"}
WS == {" ", "\t", "\n"}
\* the non-ASCII characters of the sources, by code point
Pound == "\\u00A3"
Euro == "\\u20AC"
Rupee == "\\u20B9"

Unbounded == 0 - 1

ReSet(s) == [k |-> "set", s |-> s]
ReCh(c) == [k |-> "set", s |-> {c}]
ReCat(a) == [k |-> "seq", a |-> a]
ReAlt(a) == [k |-> "alt", a |-> a]
ReRep(r, lo, hi) == [k |-> "rep", r |-> r, min |-> lo, max |-> hi]
ReStar(r) == ReRep(r, 0, Unbounded)
RePlus(r) == ReRep(r, 1, Unbounded)
ReOpt(r) == ReRep(r, 0, 1)
ReGrp(n, r) == [k |-> "grp", n |-> n, r |-> r]
\* a literal word; lo and up are its lower- and upper-case spellings
\* (equal for a case-sensitive literal)
ReWord(lo, up) == ReCat([i \in 1..Len(lo) |-> ReSet({lo[i], up[i]})])

NoCaps == [n \in 1..2 |-> <<0, 0>>]

Fail == [ok |-> FALSE]

RECURSIVE ReMatch(_, _, _, _)
RECURSIVE ReFirst(_, _, _, _, _)
\* the first way (greedy, backtracking in priority order) in which the
\* nodes of todo, one after the other, match t from position i; caps are
\* the capture groups closed so far.  A quantified node never matches the
\* empty text in the patterns of the sources.
ReMatch(todo, t, i, caps) ==
    IF Len(todo) = 0 THEN [ok |-> TRUE, e |-> i, c |-> caps]
    ELSE LET r == Head(todo)
             rest == Tail(todo)
         IN CASE r.k = "set" ->
                    IF i <= Len(t) /\ t[i] \in r.s THEN ReMatch(rest, t, i + 1, caps)
                    ELSE Fail
              [] r.k = "seq" -> ReMatch(r.a \o rest, t, i, caps)
              [] r.k = "alt" -> ReFirst(r.a, rest, t, i, caps)
              [] r.k = "rep" ->
                    LET again == ReRep(r.r, IF r.min > 0 THEN r.min - 1 ELSE 0,
                                       IF r.max = Unbounded THEN Unbounded ELSE r.max - 1)
                        more == IF r.max = 0 THEN Fail
                                ELSE ReMatch(<<r.r, again>> \o rest, t, i, caps)
                    IN IF more.ok THEN more
                       ELSE IF r.min = 0 THEN ReMatch(rest, t, i, caps)
                       ELSE Fail
              [] r.k = "grp" ->
                    ReMatch(<<r.r, [k |-> "end", n |-> r.n, from |-> i]>> \o rest, t, i, caps)
              [] r.k = "end" ->
                    ReMatch(rest, t, i, [caps EXCEPT ![r.n] = <<r.from, i>>])

ReFirst(alts, rest, t, i, caps) ==
    IF Len(alts) = 0 THEN Fail
    ELSE LET m == ReMatch(<<Head(alts)>> \o rest, t, i, caps)
         IN IF m.ok THEN m ELSE ReFirst(Tail(alts), rest, t, i, caps)

NoMatch == [found |-> FALSE]

RECURSIVE ReExecFrom(_, _, _)
ReExecFrom(r, t, i) ==
    IF i > Len(t) + 1 THEN NoMatch
    ELSE LET m == ReMatch(<<r>>, t, i, NoCaps)
         IN IF m.ok
            THEN [found |-> TRUE,
                  g |-> [n \in 1..2 |->
                           IF m.c[n] = <<0, 0>> THEN << >>
                           ELSE SubSeq(t, m.c[n][1], m.c[n][2] - 1)]]
            ELSE ReExecFrom(r, t, i + 1)

\* String.prototype.match(regex) without the g flag: the groups of the
\* leftmost match, or no match
ReExec(r, t) == ReExecFrom(r, t, 1)

\* RegExp.prototype.test
ReTest(r, t) == ReExec(r, t).found

(***************************************************************************)
(* Text helpers                                                            *)
(***************************************************************************)
RECURSIVE CollapseWs(_)
\* priceText.replace(/\s+/g, ' ')
CollapseWs(t) ==
    IF Len(t) = 0 THEN << >>
    ELSE IF Head(t) \in WS
         THEN IF Len(t) > 1 /\ t[2] \in WS THEN CollapseWs(Tail(t))
              ELSE <<" ">> \o CollapseWs(Tail(t))
         ELSE <<Head(t)>> \o CollapseWs(Tail(t))

\* String.prototype.trim
Trim(t) ==
    LET keep == {i \in 1..Len(t) : t[i] \notin WS}
    IN IF keep = {} THEN << >>
       ELSE SubSeq(t, CHOOSE i \in keep : \A j \in keep : i <= j,
                      CHOOSE i \in keep : \A j \in keep : j <= i)

\* priceText.replace(/\s+/g, ' ').trim()
CleanText(t) == Trim(CollapseWs(t))

\* String.prototype.includes for a one-character needle
Includes(t, c) == \E i \in 1..Len(t) : t[i] = c

\* String.prototype.includes for a word
IncludesWord(t, w) ==
    \E i \in 1..(Len(t) - Len(w) + 1) : SubSeq(t, i, i + Len(w) - 1) = w

\* s.replace(/,/g, '')
StripCommas(t) == SelectSeq(t, LAMBDA c : c # ",")

DigitVal(c) == CHOOSE d \in 0..9 : <<"0", "1", "2", "3", "4", "5", "6", "7", "8", "9">>[d + 1] = c

RECURSIVE DigitsVal(_)
DigitsVal(t) == IF Len(t) = 0 THEN 0
                ELSE DigitsVal(SubSeq(t, 1, Len(t) - 1)) * 10 + DigitVal(t[Len(t)])

NaN == 0 - 1

\* parseFloat, in cents: the longest prefix digits[.digits] of the text;
\* NaN when the text does not start with a digit (the patterns never pass
\* a sign, an exponent or a leading point)
ParseFloat(t) ==
    LET nd == {i \in 0..Len(t) : \A j \in 1..i : t[j] \in Digit}
        n == CHOOSE i \in nd : \A j \in nd : j <= i
        fd == {i \in 0..(Len(t) - n - 1) :
                  /\ t[n + 1] = "."
                  /\ \A j \in 1..i : t[n + 1 + j] \in Digit}
        f == IF n < Len(t) /\ fd # {} THEN CHOOSE i \in fd : \A j \in fd : j <= i ELSE 0
        d1 == IF f >= 1 THEN DigitVal(t[n + 2]) ELSE 0
        d2 == IF f >= 2 THEN DigitVal(t[n + 3]) ELSE 0
    IN IF n = 0 THEN NaN
       ELSE DigitsVal(SubSeq(t, 1, n)) * 100 + d1 * 10 + d2

(***************************************************************************)
(* Price parsers of the three profiles                                     *)
(***************************************************************************)
USD == <<"U", "S", "D">>
GBP == <<"G", "B", "P">>
EUR == <<"E", "U", "R">>
INR == <<"I", "N", "R">>

Null == [null |-> TRUE]
Price(a, c) == [amount |-> a, currency |-> c]

ReDigit == ReSet(Digit)
ReSpace == ReSet(WS)
\* \d+(?:\.\d{2})?
ReAmount == ReCat(<<RePlus(ReDigit), ReOpt(ReCat(<<ReCh("."), ReDigit, ReDigit>>))>>)
\* \d+(?:,\d{3})*(?:\.\d{2})?
ReGrouped == ReCat(<<RePlus(ReDigit),
                     ReStar(ReCat(<<ReCh(","), ReDigit, ReDigit, ReDigit>>)),
                     ReOpt(ReCat(<<ReCh("."), ReDigit, ReDigit>>))>>)
\* [A-Z]{3}
ReCode == ReCat(<<ReSet(Upper), ReSet(Upper), ReSet(Upper)>>)
\* [A-Z]{3} under the i flag
ReCodeI == ReCat(<<ReSet(Upper \cup Lower), ReSet(Upper \cup Lower), ReSet(Upper \cup Lower)>>)

AmazonPatterns == <<
    ReCat(<<ReCh("$"), ReGrp(1, ReGrouped)>>),
    ReCat(<<ReCh(Pound), ReGrp(1, ReGrouped)>>),
    ReCat(<<ReCh(Euro), ReGrp(1, ReGrouped)>>),
    ReCat(<<ReGrp(1, ReGrouped), ReStar(ReSpace), ReWord(USD, USD)>>),
    ReCat(<<ReGrp(1, ReGrouped), ReStar(ReSpace), ReCh("$")>>),
    ReCat(<<ReCh(Rupee), ReGrp(1, ReGrouped)>>) >>

AmazonCurrency(cleanText) ==
    IF Includes(cleanText, Pound) THEN GBP
    ELSE IF Includes(cleanText, Euro) THEN EUR
    ELSE IF Includes(cleanText, Rupee) THEN INR
    ELSE IF IncludesWord(cleanText, USD) THEN USD
    ELSE USD

RECURSIVE AmazonTry(_, _)
AmazonTry(cleanText, n) ==
    IF n > Len(AmazonPatterns) THEN Null
    ELSE LET match == ReExec(AmazonPatterns[n], cleanText)
         IN IF ~match.found THEN AmazonTry(cleanText, n + 1)
            ELSE LET amount == ParseFloat(StripCommas(match.g[1]))
                 IN IF amount = NaN THEN AmazonTry(cleanText, n + 1)
                    ELSE Price(amount, AmazonCurrency(cleanText))

parseAmazonPrice(priceText) ==
    IF priceText = << >> THEN Null
    ELSE AmazonTry(CleanText(priceText), 1)

NetflixSyms == {Pound, "$", Euro, Rupee}
\* \s*(?:\/|\s*per\s*|\s*)(?:month|mo|...)? under the i flag
ReNetflixTail(words) ==
    ReCat(<<ReStar(ReSpace),
            ReAlt(<<ReCh("/"),
                    ReCat(<<ReStar(ReSpace), ReWord(<<"p", "e", "r">>, <<"P", "E", "R">>), ReStar(ReSpace)>>),
                    ReStar(ReSpace)>>),
            ReOpt(ReAlt(words))>>)
ReMonth == ReWord(<<"m", "o", "n", "t", "h">>, <<"M", "O", "N", "T", "H">>)
ReMo == ReWord(<<"m", "o">>, <<"M", "O">>)
ReMesyats == ReWord(<<"\\u043C", "\\u0435", "\\u0441", "\\u044F", "\\u0446">>, <<"\\u041C", "\\u0415", "\\u0421", "\\u042F", "\\u0426">>)

NetflixPatterns == <<
    ReCat(<<ReGrp(1, ReSet(NetflixSyms)), ReGrp(2, ReAmount), ReNetflixTail(<<ReMonth, ReMo, ReMesyats>>)>>),
    ReCat(<<ReGrp(1, ReAmount), ReStar(ReSpace), ReGrp(2, ReCodeI), ReNetflixTail(<<ReMonth, ReMo>>)>>),
    ReCat(<<ReGrp(1, ReSet(NetflixSyms)), ReGrp(2, ReAmount)>>),
    ReCat(<<ReGrp(1, ReAmount), ReStar(ReSpace), ReGrp(2, ReCode)>>) >>

NetflixCurrencyFromSymbol(symbol) ==
    CASE symbol = <<"$">> -> USD
      [] symbol = <<Pound>> -> GBP
      [] symbol = <<Euro>> -> EUR
      [] symbol = <<Rupee>> -> INR
      [] OTHER -> USD

RECURSIVE NetflixTry(_, _)
NetflixTry(cleanText, n) ==
    IF n > Len(NetflixPatterns) THEN Null
    ELSE LET match == ReExec(NetflixPatterns[n], cleanText)
         IN IF ~match.found THEN NetflixTry(cleanText, n + 1)
            ELSE LET g1 == match.g[1]
                     g2 == match.g[2]
                     both == g1 # << >> /\ g2 # << >>
                     symFirst == both /\ ReTest(ReSet(NetflixSyms), g1)
                     codeAfter == both /\ ReTest(ReCode, g2)
                     amount == IF symFirst THEN ParseFloat(g2) ELSE ParseFloat(g1)
                 IN IF ~symFirst /\ ~codeAfter THEN NetflixTry(cleanText, n + 1)
                    ELSE IF amount = NaN THEN NetflixTry(cleanText, n + 1)
                    ELSE IF symFirst THEN Price(amount, NetflixCurrencyFromSymbol(g1))
                    ELSE Price(amount, g2)

parseNetflixPrice(priceText) ==
    IF priceText = << >> THEN Null
    ELSE NetflixTry(CleanText(priceText), 1)

DominosSyms == {Pound, "$", Euro}

DominosPatterns == <<
    ReCat(<<ReGrp(1, ReSet(DominosSyms)), ReGrp(2, ReAmount)>>),
    ReCat(<<ReGrp(1, ReAmount), ReStar(ReSpace), ReGrp(2, ReCode)>>),
    ReCat(<<ReWord(<<"t", "o", "t", "a", "l">>, <<"T", "O", "T", "A", "L">>), ReOpt(ReCh(":")),
            ReStar(ReSpace), ReGrp(1, ReSet(DominosSyms)), ReGrp(2, ReAmount)>>),
    ReCat(<<ReGrp(1, ReSet(DominosSyms)),
            ReGrp(2, ReCat(<<ReRep(ReDigit, 1, 3),
                             ReStar(ReCat(<<ReCh(","), ReDigit, ReDigit, ReDigit>>)),
                             ReOpt(ReCat(<<ReCh("."), ReDigit, ReDigit>>))>>))>>) >>

DominosCurrencyFromSymbol(symbol) ==
    CASE symbol = <<"$">> -> USD
      [] symbol = <<Pound>> -> GBP
      [] symbol = <<Euro>> -> EUR
      [] OTHER -> USD

RECURSIVE DominosTry(_, _)
DominosTry(cleanText, n) ==
    IF n > Len(DominosPatterns) THEN Null
    ELSE LET match == ReExec(DominosPatterns[n], cleanText)
         IN IF ~match.found THEN DominosTry(cleanText, n + 1)
            ELSE LET g1 == match.g[1]
                     g2 == match.g[2]
                     both == g1 # << >> /\ g2 # << >>
                     symFirst == both /\ ReTest(ReSet(DominosSyms), g1)
                     codeAfter == both /\ ReTest(ReCode, g2)
                     amount == IF symFirst THEN ParseFloat(StripCommas(g2))
                               ELSE ParseFloat(StripCommas(g1))
                 IN IF ~symFirst /\ ~codeAfter THEN DominosTry(cleanText, n + 1)
                    ELSE IF amount = NaN THEN DominosTry(cleanText, n + 1)
                    ELSE IF symFirst THEN Price(amount, DominosCurrencyFromSymbol(g1))
                    ELSE Price(amount, g2)

parseDominosPrice(priceText) ==
    IF priceText = << >> THEN Null
    ELSE DominosTry(CleanText(priceText), 1)

Platforms == {"amazon", "netflix", "dominos"}

ParsePrice(platform, priceText) ==
    CASE platform = "amazon" -> parseAmazonPrice(priceText)
      [] platform = "netflix" -> parseNetflixPrice(priceText)
      [] platform = "dominos" -> parseDominosPrice(priceText)

(***************************************************************************)
(* The texts of the fixtures                                               *)
(***************************************************************************)
TxtGrouped == <<"$", "1", ",", "2", "3", "4", ".", "5", "6">>
TxtLabelled == <<"T", "o", "t", "a", "l", ":", " ", Pound, "1", "2", ".", "9", "9">>
TxtCodeAfter == <<"1", "5", ".", "9", "9", " ", "U", "S", "D">>
TxtEuro == <<Euro, "1", "4", ".", "5", "0">>
TxtDollar == <<"$", "2", "5", ".", "9", "9">>
TxtLower == <<"$", "2", "0", ".", "0", "0">>
TxtZero == <<"$", "0", ".", "0", "0">>
TxtRupee == <<Rupee, "4", "9", "9">>
TxtMonthly == <<" ", "$", "1", "5", ".", "9", "9", "\n", "/", "m", "o", "n", "t", "h", " ">>
TxtTwoSyms == <<Rupee, "4", "9", "9", " ", "$", "5">>
TxtFree == <<"F", "r", "e", "e">>
TxtWords == <<"S", "e", "e", " ", "c", "a", "r", "t">>
TxtSymOnly == <<"$">>
TxtBlank == <<" ", " ">>
TxtEmpty == << >>

\* texts with no digit in them
NonNumericTexts == {TxtFree, TxtWords, TxtSymOnly, TxtBlank, TxtEmpty}

ParseTexts == {TxtGrouped, TxtLabelled, TxtCodeAfter, TxtEuro, TxtDollar, TxtLower, TxtZero,
               TxtRupee, TxtMonthly, TxtTwoSyms} \cup NonNumericTexts

(***************************************************************************)
(* The page.  page.dom maps each selector that resolves to the element it  *)
(* resolves to; a selector outside DOMAIN page.dom resolves to nothing.    *)
(* An element carries its textContent, the number of elements the selector *)
(* matches (querySelectorAll), whether it is disabled, whether the name    *)
(* child of each matched element exists, and the texts of the descendants  *)
(* a nested query returns.                                                 *)
(***************************************************************************)
Absent == [absent |-> TRUE]
Thrown == [thrown |-> TRUE]
El(text) == [text |-> text, n |-> 1, disabled |-> FALSE, titled |-> FALSE, texts |-> << >>]
ElList(n, titled, texts) ==
    [text |-> << >>, n |-> n, disabled |-> FALSE, titled |-> titled, texts |-> texts]

\* :contains() is jQuery, not CSS: querySelector throws a SyntaxError on it
InvalidSelectors == {".a-alert-content:contains(\"applied\")",
                     "button:contains(\"Redeem\")",
                     "button:contains(\"Apply Gift Card\")"}

\* document.querySelector: the element, Absent (null) or Thrown
querySelector(pg, selector) ==
    IF selector \in InvalidSelectors THEN Thrown
    ELSE IF selector \in DOMAIN pg.dom THEN pg.dom[selector]
    ELSE Absent

\* private findElement(selectors) of every profile
findElement(pg, selectors) ==
    LET hit == {i \in 1..Len(selectors) : querySelector(pg, selectors[i]) # Absent}
    IN IF hit = {} THEN Absent
       ELSE querySelector(pg, selectors[CHOOSE i \in hit : \A j \in hit : i <= j])

AmazonDomains == <<
    <<"a","m","a","z","o","n",".","c","o","m">>,
    <<"a","m","a","z","o","n",".","c","o",".","u","k">>,
    <<"a","m","a","z","o","n",".","d","e">>,
    <<"a","m","a","z","o","n",".","f","r">>,
    <<"a","m","a","z","o","n",".","i","t">>,
    <<"a","m","a","z","o","n",".","e","s">>,
    <<"a","m","a","z","o","n",".","c","a">>,
    <<"a","m","a","z","o","n",".","c","o","m",".","a","u">> >>

AmazonSelectors == [
    totalPrice |-> <<"#subtotals-marketplace-table .grand-total-price",
                     ".grand-total-price-value",
                     "#subtotals-marketplace-spc .a-offscreen",
                     "span[data-feature-name=\"subtotals\"] .currencyINR">>,
    giftCardSection |-> <<"#gc-redemption-section",
                          ".a-box[data-testid=\"gift-cards-and-promotional-codes\"]",
                          "#gift-cards-and-promotional-codes">>,
    giftCardInput |-> <<"#gc-redemption-input",
                        "input[name=\"giftCardCode\"]",
                        "input[aria-label*=\"gift card\"]">>,
    applyButton |-> <<"#gc-redemption-apply-button",
                      "button[aria-label*=\"Apply gift card\"]",
                      ".a-button[data-testid=\"apply-gift-card-button\"]">>,
    price |-> <<".a-price-whole", "#priceblock_dealprice", "#priceblock_ourprice", ".a-offscreen">>,
    buyNowButton |-> <<"#buy-now-button", "input[name=\"submit.buy-now\"]">>,
    items |-> <<".sc-item-content-group", ".a-row.sc-item-row",
                "[data-name=\"Active Items\"] .sc-list-item">>,
    success |-> <<".a-alert-success", ".gc-redemption-success",
                  "[data-testid=\"gc-redemption-success\"]",
                  ".a-alert-content:contains(\"applied\")">>,
    balance |-> <<".gc-redemption-balance", "[data-testid=\"gift-card-balance\"]">>,
    injection |-> <<"#checkout-button-group", "#placeYourOrder",
                    ".a-button-group-vertical", ".pmts-button-group">>,
    fallback |-> <<"#subtotals-marketplace-table", ".a-box-group">> ]

NetflixDomains == <<
    <<"n","e","t","f","l","i","x",".","c","o","m">>,
    <<"n","e","t","f","l","i","x",".","c","o",".","u","k">>,
    <<"n","e","t","f","l","i","x",".","d","e">>,
    <<"n","e","t","f","l","i","x",".","f","r">>,
    <<"n","e","t","f","l","i","x",".","i","t">>,
    <<"n","e","t","f","l","i","x",".","e","s">>,
    <<"n","e","t","f","l","i","x",".","c","a">>,
    <<"n","e","t","f","l","i","x",".","c","o","m",".","a","u">>,
    <<"n","e","t","f","l","i","x",".","c","o",".","j","p">>,
    <<"n","e","t","f","l","i","x",".","i","n">> >>

NetflixSelectors == [
    totalPrice |-> <<"[data-uia=\"plan-price\"]", ".price-display .currency-price",
                     ".plan-price .amount", ".plan-selection-price">>,
    giftCardSection |-> <<"[data-uia=\"gift-card-section\"]", ".gift-card-redemption",
                          "#gift-code-section", ".redeem-gift-container">>,
    giftCardInput |-> <<"[data-uia=\"gift-code-input\"]", "input[name=\"giftCode\"]",
                        "#gift-code-input", "input[placeholder*=\"gift\"]">>,
    applyButton |-> <<"[data-uia=\"redeem-gift-button\"]", "button[data-uia=\"redeem-button\"]",
                      ".redeem-button", "button:contains(\"Redeem\")">>,
    planSelection |-> <<"[data-uia=\"plan-selection-container\"]", ".plan-selection-wrapper",
                        ".planGrid">>,
    selectedPlan |-> <<"[data-uia=\"plan-selection-option\"][aria-checked=\"true\"]",
                       ".plan-option.selected", ".plan-selected">>,
    paymentStep |-> <<"[data-uia=\"payment-picker-container\"]", ".payment-method-container",
                      ".payment-picker">>,
    continueButton |-> <<"[data-uia=\"payment-picker-continue\"]",
                         "button[data-uia=\"continue-button\"]", ".btn-continue">>,
    redeemLink |-> "a[href*=\"/redeem\"], a[href*=\"gift\"]",
    success |-> <<"[data-uia=\"redeem-success\"]", ".redeem-success-message",
                  ".gift-success", ".success-message">>,
    balance |-> <<"[data-uia=\"account-balance\"]", ".account-balance", ".gift-balance">>,
    injection |-> <<"[data-uia=\"payment-picker-container\"]", ".payment-method-container",
                    ".plan-selection-wrapper", ".redeem-gift-container">>,
    fallback |-> <<".signup-body", ".main-content", ".center-content">> ]

DominosDomains == <<
    <<"d","o","m","i","n","o","s",".","c","o","m">>,
    <<"d","o","m","i","n","o","s",".","c","o",".","u","k">>,
    <<"d","o","m","i","n","o","s",".","d","e">>,
    <<"d","o","m","i","n","o","s",".","c","o","m",".","a","u">>,
    <<"d","o","m","i","n","o","s",".","c","a">>,
    <<"d","o","m","i","n","o","s",".","c","o",".","n","z">>,
    <<"d","o","m","i","n","o","s",".","i","e">>,
    <<"d","o","m","i","n","o","s",".","f","r">> >>

DominosSelectors == [
    totalPrice |-> <<"[data-quid=\"order-summary-total\"]", ".order-total .price",
                     "#total-price", ".checkout-total .amount",
                     ".order-summary-total-row .total-amount">>,
    giftCardSection |-> <<"[data-quid=\"gift-card-section\"]", ".gift-card-container",
                          "#gift-card-form", ".payment-gift-card", ".promo-gift-card-section">>,
    giftCardInput |-> <<"[data-quid=\"gift-card-input\"]", "input[name=\"giftCardNumber\"]",
                        "#gift-card-number", "input[placeholder*=\"gift card\"]",
                        "input[aria-label*=\"gift card\"]">>,
    applyButton |-> <<"[data-quid=\"apply-gift-card\"]", "button[data-quid=\"gift-card-apply\"]",
                      ".apply-gift-card-btn", "button:contains(\"Apply Gift Card\")",
                      ".btn-apply-gift-card">>,
    cartItems |-> <<".cart-item", "[data-quid=\"cart-item\"]", ".order-item", ".pizza-item">>,
    paymentSection |-> <<"[data-quid=\"payment-section\"]", ".payment-methods",
                         "#payment-container", ".checkout-payment">>,
    totalAny |-> "*[class*=\"total\"], *[data-quid*=\"total\"]",
    expandLinks |-> "a[href*=\"gift\"], button[data-quid*=\"gift\"], .add-gift-card, .promo-code-toggle",
    success |-> <<".gift-card-success", ".promo-success", "[data-quid*=\"success\"]",
                  ".alert-success">>,
    balance |-> <<".gift-card-balance", "[data-quid*=\"gift-card-applied\"]",
                  ".applied-gift-card">>,
    discount |-> <<".discount-line", ".gift-card-discount", "[data-quid*=\"discount\"]">>,
    injection |-> <<"[data-quid=\"payment-section\"]", ".payment-methods",
                    ".checkout-payment", ".payment-options">>,
    fallback |-> <<".checkout-container", ".order-summary", ".cart-summary",
                   "#checkout-content">> ]

(***************************************************************************)
(* Checkout extraction                                                     *)
(***************************************************************************)
\* the texts (element.textContent || '') of the elements a selector chain
\* resolves, in chain order
ChainTexts(pg, chain) ==
    LET present == SelectSeq(chain, LAMBDA sel : querySelector(pg, sel) # Absent)
    IN [i \in 1..Len(present) |-> querySelector(pg, present[i]).text]

RECURSIVE FirstNonNull(_)
FirstNonNull(results) ==
    IF Len(results) = 0 THEN Null
    ELSE IF Head(results) # Null THEN Head(results)
    ELSE FirstNonNull(Tail(results))

\* the loop `for (... of candidates) { parsed = parse(text); if (parsed)
\* return parsed }` followed by `return null`: the first text that parses
FirstParsed(platform, texts) ==
    FirstNonNull([i \in 1..Len(texts) |-> ParsePrice(platform, texts[i])])

Slice(items, limit) == SubSeq(items, 1, IF Len(items) < limit THEN Len(items) ELSE limit)

\* `if (!totalPrice) return null; return {platform, totalAmount, ...}`
SnapshotOrNull(platform, totalPrice, items, pg, ts) ==
    IF totalPrice = Null THEN Null
    ELSE [platform |-> platform, totalAmount |-> totalPrice.amount,
          currency |-> totalPrice.currency, items |-> items,
          checkoutUrl |-> <<pg.hostname, pg.pathname>>, timestamp |-> ts]

\* AmazonPlatform.extractTotalPrice tries the checkout chain, then the
\* product chain
AmazonTotalTexts(pg) ==
    ChainTexts(pg, AmazonSelectors.totalPrice) \o ChainTexts(pg, AmazonSelectors.price)

AmazonMaxItems == 5

AmazonExtractItems(pg) ==
    LET chain == AmazonSelectors.items
        hit == {i \in 1..Len(chain) :
                   querySelector(pg, chain[i]) # Absent /\ querySelector(pg, chain[i]).n > 0}
        els == IF hit = {} THEN ElList(0, FALSE, << >>)
               ELSE querySelector(pg, chain[CHOOSE i \in hit : \A j \in hit : i <= j])
        items == [i \in 1..els.n |->
                     [name |-> IF els.titled THEN <<"title", i>> ELSE <<"Item", i>>,
                      platform |-> "amazon"]]
    IN Slice(items, AmazonMaxItems)

\* NetflixPlatform.extractPlanPrice tries the plan-price chain, then the
\* price elements inside the selected plan (selectedPlan.texts: the texts of
\* selectedPlan.querySelectorAll('.price, .amount, [data-uia*="price"]'))
NetflixTotalTexts(pg) ==
    LET selectedPlan == findElement(pg, NetflixSelectors.selectedPlan)
    IN ChainTexts(pg, NetflixSelectors.totalPrice)
         \o (IF selectedPlan # Absent THEN selectedPlan.texts ELSE << >>)

NetflixExtractSelectedPlan(pg) ==
    LET selectedPlan == findElement(pg, NetflixSelectors.selectedPlan)
    IN IF selectedPlan # Absent
       THEN << [name |-> IF selectedPlan.titled THEN <<"title", 1>>
                         ELSE <<"Netflix Subscription", 1>>,
                platform |-> "netflix", type |-> "subscription"] >>
       ELSE << [name |-> <<"Netflix Subscription", 1>>,
                platform |-> "netflix", type |-> "subscription"] >>

\* /[\$<pound><euro>]\d+\.\d{2}/
ReDominosTotalText ==
    ReCat(<<ReSet(DominosSyms), RePlus(ReDigit), ReCh("."), ReDigit, ReDigit>>)

DominosLooksLikeTotal(priceText) == ReTest(ReDominosTotalText, priceText)

\* DominosPlatform.extractTotalPrice tries the total chain, then every
\* element with "total" in its class or data-quid whose text looks like a
\* price
DominosTotalTexts(pg) ==
    LET totalElements == querySelector(pg, DominosSelectors.totalAny)
    IN ChainTexts(pg, DominosSelectors.totalPrice)
         \o (IF totalElements # Absent
             THEN SelectSeq(totalElements.texts, DominosLooksLikeTotal) ELSE << >>)

TotalTexts(platform, pg) ==
    CASE platform = "amazon" -> AmazonTotalTexts(pg)
      [] platform = "netflix" -> NetflixTotalTexts(pg)
      [] platform = "dominos" -> DominosTotalTexts(pg)

\* extractTotalPrice / extractPlanPrice of the profile
extractTotalPrice(platform, pg) == FirstParsed(platform, TotalTexts(platform, pg))

DominosMaxItems == 10

RECURSIVE AllMatches(_, _)
\* document.querySelectorAll(selectors.join(', ')): the matches of every
\* selector of the list, taken together
AllMatches(pg, chain) ==
    IF Len(chain) = 0 THEN ElList(0, TRUE, << >>)
    ELSE LET rest == AllMatches(pg, Tail(chain))
             el == querySelector(pg, Head(chain))
         IN IF el = Absent \/ el.n = 0 THEN rest
            ELSE ElList(el.n + rest.n, el.titled /\ rest.titled,
                        [i \in 1..el.n |-> IF i <= Len(el.texts) THEN el.texts[i] ELSE << >>]
                            \o rest.texts)

\* the price of a cart item: the parsed text of its price child, 0 when
\* there is none or it does not parse
DominosItemPrice(texts, i) ==
    IF i > Len(texts) \/ parseDominosPrice(texts[i]) = Null THEN 0
    ELSE parseDominosPrice(texts[i]).amount

\* itemElements.forEach((element, index) => items.push({name, price, ...}))
DominosItemsOf(els) ==
    [i \in 1..els.n |->
        [name |-> IF els.titled THEN <<"title", i>> ELSE <<"Pizza Item", i>>,
         platform |-> "dominos",
         price |-> DominosItemPrice(els.texts, i),
         type |-> "food"]]

DominosPlaceholder ==
    << [name |-> <<"Domino's Order", 1>>, platform |-> "dominos", type |-> "food"] >>

DominosExtractOrderItems(pg) ==
    Slice(IF AllMatches(pg, DominosSelectors.cartItems).n = 0 THEN DominosPlaceholder
          ELSE DominosItemsOf(AllMatches(pg, DominosSelectors.cartItems)),
          DominosMaxItems)

extractItems(platform, pg) ==
    CASE platform = "amazon" -> AmazonExtractItems(pg)
      [] platform = "netflix" -> NetflixExtractSelectedPlan(pg)
      [] platform = "dominos" -> DominosExtractOrderItems(pg)

\* getCheckoutInfo without the guard on a missing total and without the
\* catch: reading totalPrice.amount of null throws a TypeError
getCheckoutInfoUnguarded(platform, pg, ts) ==
    IF extractTotalPrice(platform, pg) = Null THEN Thrown
    ELSE SnapshotOrNull(platform, extractTotalPrice(platform, pg),
                        extractItems(platform, pg), pg, ts)

\* getCheckoutInfo of the profile; ts is Date.now().  No selector of the
\* chains it walks is invalid, so its try/catch never fires.
getCheckoutInfo(platform, pg, ts) ==
    SnapshotOrNull(platform, extractTotalPrice(platform, pg), extractItems(platform, pg), pg, ts)

(***************************************************************************)
(* Platform detection (the registry and each profile's isDetected)         *)
(***************************************************************************)
NoPlatform == "none"

\* list.some(s => text.includes(s))
SomeIncluded(text, list) == \E i \in 1..Len(list) : IncludesWord(text, list[i])

AmazonCheckoutPaths == <<<<"/", "g", "p", "/", "b", "u", "y", "/">>, <<"/", "c", "h", "e", "c", "k", "o", "u", "t", "/">>, <<"/", "g", "p", "/", "c", "a", "r", "t", "/", "v", "i", "e", "w", ".", "h", "t", "m", "l">>,
                         <<"/", "g", "p", "/", "c", "a", "r", "t", "/">>, <<"/", "a", "p", "/", "s", "i", "g", "n", "i", "n">>>>

AmazonIsDetected(pg) ==
    /\ SomeIncluded(pg.hostname, AmazonDomains)
    /\ \/ SomeIncluded(pg.pathname, AmazonCheckoutPaths)
       \/ findElement(pg, AmazonSelectors.buyNowButton) # Absent

NetflixRelevantPaths == <<<<"/", "s", "i", "g", "n", "u", "p">>, <<"/", "r", "e", "d", "e", "e", "m">>, <<"/", "g", "i", "f", "t", "-", "r", "e", "d", "e", "m", "p", "t", "i", "o", "n">>, <<"/", "p", "a", "y", "m", "e", "n", "t">>,
                          <<"/", "p", "l", "a", "n", "f", "o", "r", "m">>>>

NetflixIsDetected(pg) ==
    /\ SomeIncluded(pg.hostname, NetflixDomains)
    /\ \/ SomeIncluded(pg.pathname, NetflixRelevantPaths)
       \/ findElement(pg, NetflixSelectors.planSelection) # Absent
       \/ findElement(pg, NetflixSelectors.paymentStep) # Absent
       \/ findElement(pg, NetflixSelectors.giftCardSection) # Absent

DominosRelevantPaths == <<<<"/", "c", "h", "e", "c", "k", "o", "u", "t">>, <<"/", "c", "a", "r", "t">>, <<"/", "o", "r", "d", "e", "r", "-", "s", "u", "m", "m", "a", "r", "y">>, <<"/", "p", "a", "y", "m", "e", "n", "t">>,
                          <<"/", "r", "e", "v", "i", "e", "w", "-", "o", "r", "d", "e", "r">>>>

DominosIsDetected(pg) ==
    /\ SomeIncluded(pg.hostname, DominosDomains)
    /\ \/ SomeIncluded(pg.pathname, DominosRelevantPaths)
       \/ findElement(pg, DominosSelectors.totalPrice) # Absent
       \/ findElement(pg, DominosSelectors.cartItems) # Absent
       \/ findElement(pg, DominosSelectors.paymentSection) # Absent

\* platform.isDetected() of the profile
IsDetected(platform, pg) ==
    CASE platform = "amazon" -> AmazonIsDetected(pg)
      [] platform = "netflix" -> NetflixIsDetected(pg)
      [] platform = "dominos" -> DominosIsDetected(pg)

\* the registry order of the profiles
PLATFORM_LIST == <<"amazon", "netflix", "dominos">>

\* detectCurrentPlatform over the list walked from its end
detectCurrentPlatformReversed(pg) ==
    IF DominosIsDetected(pg) THEN "dominos"
    ELSE IF NetflixIsDetected(pg) THEN "netflix"
    ELSE IF AmazonIsDetected(pg) THEN "amazon"
    ELSE NoPlatform

\* PLATFORM_LIST is walked in the order Amazon, Netflix, Dominos
detectCurrentPlatform(pg) ==
    IF AmazonIsDetected(pg) THEN "amazon"
    ELSE IF NetflixIsDetected(pg) THEN "netflix"
    ELSE IF DominosIsDetected(pg) THEN "dominos"
    ELSE NoPlatform

isSupportedDomain(hostname) ==
    \/ SomeIncluded(hostname, AmazonDomains)
    \/ SomeIncluded(hostname, NetflixDomains)
    \/ SomeIncluded(hostname, DominosDomains)

SelectorsOf(platform) ==
    CASE platform = "amazon" -> AmazonSelectors
      [] platform = "netflix" -> NetflixSelectors
      [] platform = "dominos" -> DominosSelectors

\* getButtonInjectionPoint of the profile: the preferred mount points, then
\* the fallback containers
getButtonInjectionPoint(platform, pg) ==
    findElement(pg, SelectorsOf(platform).injection \o SelectorsOf(platform).fallback)

(***************************************************************************)
(* The content script (PaymintContentScript)                               *)
(***************************************************************************)
\* setTimeout delays of the content script, in milliseconds
DebounceMs == 1000
LoadFallbackMs == 3000

\* granularity of the clock, and the number of page changes followed
TickMs == 500
MaxMutations == 3

\* a MutationObserver that observes document.body
Connected == [connected |-> TRUE]

Timer(ms) == [ms |-> ms]
Expired == Timer(0)

NoMessages == [CHECKOUT_INFO_DETECTED |-> 0, PAY_BUTTON_INJECTED |-> 0,
               INITIATE_CRYPTO_PAYMENT |-> 0,
               GIFT_CARD_APPLIED_SUCCESS |-> 0, GIFT_CARD_APPLIED_FAILED |-> 0]

\* chrome.runtime.sendMessage({type, ...})
SendMessage(snt, type) == [snt EXCEPT ![type] = @ + 1]

\* the truth of this.payButton, tested by injectPayButton and by
\* retryPlatformDetection
HasPayButtonNever(pb) == FALSE
HasPayButton(pb) == pb # Null

\* clearTimeout(detectionTimeout); detectionTimeout = setTimeout(..., 1000)
ArmDetectionTimeoutKeep(pending) == IF pending # Null THEN pending ELSE Timer(DebounceMs)
ArmDetectionTimeout(pending) == Timer(DebounceMs)

\* payButton.remove()
RemovePayButton(n) == n - 1

\* createPayButton of the profile: the button reads "Pay with Crypto"
CreatePayButton(cp) == [id |-> cp, look |-> "idle"]

\* setPayButtonLoading: the button reads "Processing..." at opacity 0.7, or
\* "Pay with Crypto" at opacity 1; it has no other look
SetPayButtonLoading(pb, loading) ==
    IF pb = Null THEN pb
    ELSE [pb EXCEPT !.look = IF loading THEN "loading" ELSE "idle"]

NoNotifications == [success |-> 0, error |-> 0]

\* showNotification(type, message): a div appended to document.body
ShowNotification(shn, type) == [shn EXCEPT ![type] = @ + 1]

\* injectPayButton for the platform cp: the fields after it
InjectPayButton(cp, pg, pb, mnt, snt) ==
    IF HasPayButton(pb) \/ getButtonInjectionPoint(cp, pg) = Absent
    THEN [payButton |-> pb, mounted |-> mnt, sent |-> snt, injected |-> FALSE]
    ELSE [payButton |-> CreatePayButton(cp), mounted |-> mnt + 1,
          sent |-> SendMessage(snt, "PAY_BUTTON_INJECTED"), injected |-> TRUE]

\* the first half of setupPlatformIntegration: the snapshot, when there is
\* one, is sent to the background script
ReportCheckoutInfo(cp, pg, snt) ==
    IF getCheckoutInfo(cp, pg, 1) # Null
    THEN SendMessage(snt, "CHECKOUT_INFO_DETECTED") ELSE snt

\* setupPlatformIntegration for the platform cp just detected
SetupPlatformIntegration(cp, pg, pb, mnt, snt) ==
    [currentPlatform |-> cp] @@ InjectPayButton(cp, pg, pb, mnt, ReportCheckoutInfo(cp, pg, snt))

\* detectAndSetupPlatform that reports the page to the background script
\* although no platform was detected
DetectAndSetupPlatformReporting(pg, pb, mnt, snt) ==
    IF detectCurrentPlatform(pg) = NoPlatform
    THEN [currentPlatform |-> NoPlatform, payButton |-> pb, mounted |-> mnt,
          sent |-> SendMessage(snt, "CHECKOUT_INFO_DETECTED"), injected |-> FALSE]
    ELSE SetupPlatformIntegration(detectCurrentPlatform(pg), pg, pb, mnt, snt)

\* detectAndSetupPlatform
DetectAndSetupPlatform(pg, pb, mnt, snt) ==
    IF detectCurrentPlatform(pg) = NoPlatform
    THEN [currentPlatform |-> NoPlatform, payButton |-> pb, mounted |-> mnt, sent |-> snt,
          injected |-> FALSE]
    ELSE SetupPlatformIntegration(detectCurrentPlatform(pg), pg, pb, mnt, snt)

\* the callback of the MutationObserver for a mutation that added an
\* element: it restarts the debounce timer
ObserverSignal(h) ==
    [h EXCEPT !.signalled = TRUE, !.sinceSignal = 0, !.rescans = 0, !.burst = @ + 1]

\* what a callback of the engine leaves in the history when it runs
Ran(h, callback) ==
    IF h.cleaned THEN [h EXCEPT !.afterCleanup = @ \cup {callback}] ELSE h

\* an observer that is not called back for the notification elements
ObservedNever(obs, pending, n) == pending

\* the debounce timer and the history after the handler has appended n
\* notification elements: a connected observer is called back with the
\* childList records
Observed(obs, pending, n) ==
    IF obs = Connected /\ n > 0 THEN ArmDetectionTimeout(pending) ELSE pending
SignalIf(obs, h, n) ==
    IF obs = Connected /\ n > 0 THEN Ran(ObserverSignal(h), "observer") ELSE h

NoPayHistory == [events |-> 0, clicked |-> FALSE, ts |-> 0, delivery |-> "none",
                 lastCommand |-> "none"]

\* handlePayButtonClick with the guard on a null snapshot removed
HandlePayButtonClickUnguarded(cp, checkoutInfo, pb, snt, shn, delivery) ==
    [payButton |-> SetPayButtonLoading(pb, TRUE),
     sent |-> SendMessage(snt, "INITIATE_CRYPTO_PAYMENT"), shown |-> shn,
     message |-> [type |-> "INITIATE_CRYPTO_PAYMENT", platform |-> cp,
                  checkoutInfo |-> checkoutInfo],
     threw |-> FALSE]

\* handlePayButtonClick on the platform cp: checkoutInfo is what
\* getCheckoutInfo has just returned, delivery says whether sendMessage
\* throws.  The fields after it and the message sent, if any (its own
\* timestamp, a second Date.now(), is left out).
HandlePayButtonClick(cp, checkoutInfo, pb, snt, shn, delivery) ==
    IF checkoutInfo = Null
    THEN [payButton |-> pb, sent |-> snt, shown |-> ShowNotification(shn, "error"),
          message |-> Null, threw |-> FALSE]
    ELSE IF delivery = "throws"
    THEN [payButton |-> SetPayButtonLoading(SetPayButtonLoading(pb, TRUE), FALSE),
          sent |-> snt, shown |-> ShowNotification(shn, "error"),
          message |-> Null, threw |-> TRUE]
    ELSE [payButton |-> SetPayButtonLoading(pb, TRUE),
          sent |-> SendMessage(snt, "INITIATE_CRYPTO_PAYMENT"), shown |-> shn,
          message |-> [type |-> "INITIATE_CRYPTO_PAYMENT", platform |-> cp,
                       checkoutInfo |-> checkoutInfo],
          threw |-> FALSE]

NoHistory == [signalled |-> FALSE, sinceSignal |-> 0, rescans |-> 0, burst |-> 0,
              lastBurst |-> 0, scans |-> 0, mutations |-> 0, cleaned |-> FALSE, afterCleanup |-> {},
              unscanned |-> FALSE]


(***************************************************************************)
(* The redemption protocol (applyGiftCard of each profile and of the       *)
(* content script).  An attempt is one call; pc is the await it stands at. *)
(***************************************************************************)
LowerCaseOf ==
    [c \in Upper |->
        LET i == CHOOSE j \in 1..26 : <<"A", "B", "C", "D", "E", "F", "G", "H", "I", "J", "K", "L", "M", "N", "O", "P", "Q", "R", "S", "T", "U", "V", "W", "X", "Y", "Z">>[j] = c
        IN <<"a", "b", "c", "d", "e", "f", "g", "h", "i", "j", "k", "l", "m", "n", "o", "p", "q", "r", "s", "t", "u", "v", "w", "x", "y", "z">>[i]]

\* String.prototype.toLowerCase
ToLowerCase(t) == [i \in 1..Len(t) |-> IF t[i] \in Upper THEN LowerCaseOf[t[i]] ELSE t[i]]

RECURSIVE SuccessScan(_, _, _)
\* the loop over successSelectors of a verification: "found" when an
\* element of the chain holds the word, "thrown" when a selector before it
\* is not valid CSS, "none" when the loop ends
SuccessScan(pg, chain, word) ==
    IF Len(chain) = 0 THEN "none"
    ELSE IF querySelector(pg, Head(chain)) = Thrown THEN "thrown"
    ELSE IF /\ querySelector(pg, Head(chain)) # Absent
            /\ IncludesWord(ToLowerCase(querySelector(pg, Head(chain)).text), word)
         THEN "found"
    ELSE SuccessScan(pg, Tail(chain), word)

\* a loop `for (selector of list) if (document.querySelector(selector))
\* return true` over valid selectors
AnyResolves(pg, chain) == \E i \in 1..Len(chain) : querySelector(pg, chain[i]) # Absent

\* `newTotal && newTotal.amount > 0`
PositiveTotal(newTotal) == newTotal # Null /\ newTotal.amount > 0

\* AmazonPlatform.verifyGiftCardApplication: "true", "false" or "thrown"
AmazonVerify(pg) ==
    CASE SuccessScan(pg, AmazonSelectors.success, <<"a", "p", "p", "l", "i", "e", "d">>) = "found" -> "true"
      [] SuccessScan(pg, AmazonSelectors.success, <<"a", "p", "p", "l", "i", "e", "d">>) = "thrown" -> "thrown"
      [] OTHER ->
            IF AnyResolves(pg, AmazonSelectors.balance) THEN "true"
            ELSE IF PositiveTotal(extractTotalPrice("amazon", pg)) THEN "true"
            ELSE "false"

\* NetflixPlatform.verifyGiftCardRedemption
NetflixVerify(pg) ==
    CASE SuccessScan(pg, NetflixSelectors.success, <<"s", "u", "c", "c", "e", "s", "s">>) = "found" -> "true"
      [] SuccessScan(pg, NetflixSelectors.success, <<"s", "u", "c", "c", "e", "s", "s">>) = "thrown" -> "thrown"
      [] OTHER ->
            IF AnyResolves(pg, NetflixSelectors.balance) THEN "true"
            ELSE IF /\ findElement(pg, NetflixSelectors.continueButton) # Absent
                    /\ ~findElement(pg, NetflixSelectors.continueButton).disabled
                 THEN "true"
            ELSE "false"

\* DominosPlatform.verifyGiftCardApplication
DominosVerify(pg) ==
    CASE SuccessScan(pg, DominosSelectors.success, <<"a", "p", "p", "l", "i", "e", "d">>) = "found" -> "true"
      [] SuccessScan(pg, DominosSelectors.success, <<"a", "p", "p", "l", "i", "e", "d">>) = "thrown" -> "thrown"
      [] OTHER ->
            IF AnyResolves(pg, DominosSelectors.balance) THEN "true"
            ELSE IF PositiveTotal(extractTotalPrice("dominos", pg)) THEN "true"
            ELSE IF AnyResolves(pg, DominosSelectors.discount) THEN "true"
            ELSE "false"

Verify(platform, pg) ==
    CASE platform = "amazon" -> AmazonVerify(pg)
      [] platform = "netflix" -> NetflixVerify(pg)
      [] platform = "dominos" -> DominosVerify(pg)

\* the number of APPLY_GIFT_CARD messages followed
MaxCommands == 2

\* the gift code of the k-th command: one character, typed by one turn of
\* typeText's loop
Code(k) == <<(<<"1", "2", "3", "4", "5", "6", "7", "8", "9">>[k])>>

NewAttempt(k) ==
    [code |-> Code(k), pc |-> "called", typed |-> 0, inputEvents |-> 0, changeEvents |-> 0,
     links |-> 0, link |-> 0, submits |-> 0, result |-> FALSE, platform |-> NoPlatform,
     reportedAs |-> NoPlatform, outcome |-> "none", notified |-> 0, verified |-> FALSE, held |-> FALSE]

\* the call `this.currentPlatform.applyGiftCard(giftCardData)`: the profile
\* object the call is made on runs the attempt to its end
Called(k, cp) == [NewAttempt(k) EXCEPT !.platform = cp]

NoAttempts == << >>

NoRedeemHistory ==
    [submitted |-> FALSE, expandClicked |-> FALSE, linkClicked |-> FALSE,
     leaving |-> FALSE, continued |-> FALSE, reacted |-> FALSE,
     indicatorEver |-> FALSE, totalDecreased |-> FALSE]

\* the clicks and events an attempt step hands to the page
Raise(rh, flags) ==
    [f \in DOMAIN rh |-> IF f \in flags THEN TRUE ELSE rh[f]]

\* what a step of an attempt yields: the attempt, the value of the input
\* field and the events handed to the page
Yield(a, input, flags) == [a |-> a, input |-> input, flags |-> flags]

\* the content script's applyGiftCard after `await platform.applyGiftCard`:
\* the outcome is shown and reported; a currentPlatform that has become null
\* makes the branch throw into the catch, which reports nothing
ReportFailedAndRetry(a, cp) ==
    IF cp = NoPlatform THEN [a EXCEPT !.pc = "done", !.outcome = "failed"]
    ELSE [a EXCEPT !.pc = "scrolled", !.typed = 0, !.notified = @ + 1]
ReportFailed(a, cp) ==
    IF cp = NoPlatform THEN [a EXCEPT !.pc = "done", !.outcome = "failed"]
    ELSE [a EXCEPT !.pc = "done", !.outcome = "failed", !.notified = @ + 1,
                   !.reportedAs = cp]

ReportSucceeded(a, cp) ==
    IF cp = NoPlatform THEN [a EXCEPT !.pc = "done", !.outcome = "succeeded"]
    ELSE [a EXCEPT !.pc = "done", !.outcome = "succeeded", !.notified = @ + 1,
                   !.reportedAs = cp]

\* the success heuristics of the protocol, read off the page: a success
\* text, a balance or discount element, or a total lower than before
HeuristicHolds(platform, pg, rh) ==
    \/ \E i \in 1..Len(SelectorsOf(platform).success) :
          /\ SelectorsOf(platform).success[i] \in DOMAIN pg.dom
          /\ IncludesWord(ToLowerCase(pg.dom[SelectorsOf(platform).success[i]].text),
                          IF platform = "netflix" THEN <<"s", "u", "c", "c", "e", "s", "s">> ELSE <<"a", "p", "p", "l", "i", "e", "d">>)
    \/ AnyResolves(pg, SelectorsOf(platform).balance)
    \/ platform = "dominos" /\ AnyResolves(pg, DominosSelectors.discount)
    \/ rh.totalDecreased

\* `return success` / `return false` of the profile's applyGiftCard
Return(a, success) == [a EXCEPT !.pc = "returned", !.result = success]

\* from the gift card section on: `if (!giftCardSection) return false`,
\* scrollIntoView, wait(1000)
Locate(platform, a, pg, input) ==
    IF findElement(pg, SelectorsOf(platform).giftCardSection) = Absent
    THEN Yield(Return(a, FALSE), input, {})
    ELSE Yield([a EXCEPT !.pc = "scrolled"], input, {})

\* the number of elements document.querySelectorAll(selector) returns
CountAll(pg, selector) ==
    IF querySelector(pg, selector) = Absent THEN 0 ELSE querySelector(pg, selector).n

\* DominosPlatform.applyGiftCard up to its first await: without a section
\* the first expand link is clicked
DominosStart(a, pg, input) ==
    IF findElement(pg, DominosSelectors.giftCardSection) # Absent
    THEN Locate("dominos", a, pg, input)
    ELSE IF CountAll(pg, DominosSelectors.expandLinks) = 0
    THEN Yield(Return(a, FALSE), input, {})
    ELSE Yield([a EXCEPT !.pc = "expanding", !.link = 1,
                         !.links = CountAll(pg, DominosSelectors.expandLinks)],
               input, {"expandClicked"})

\* NetflixPlatform.applyGiftCard up to its first await: away from /redeem
\* the redeem link is clicked or the location is set
NetflixStart(a, pg, input) ==
    IF IncludesWord(pg.pathname, <<"/", "r", "e", "d", "e", "e", "m">>) THEN Locate("netflix", a, pg, input)
    ELSE IF querySelector(pg, NetflixSelectors.redeemLink) # Absent
    THEN Yield([a EXCEPT !.pc = "navigating"], input, {"linkClicked"})
    ELSE Yield([a EXCEPT !.pc = "navigating"], input, {"leaving"})

\* platform.applyGiftCard(giftCardData) up to its first await
Start(platform, a, pg, input) ==
    CASE platform = "amazon" -> Locate("amazon", a, pg, input)
      [] platform = "netflix" -> NetflixStart(a, pg, input)
      [] platform = "dominos" -> DominosStart(a, pg, input)

\* after wait(1000) in the expand loop: the section is looked up again; the
\* loop breaks, clicks the next link, or ends
Expanded(platform, a, pg, input) ==
    IF findElement(pg, DominosSelectors.giftCardSection) # Absent
    THEN Locate(platform, a, pg, input)
    ELSE IF a.link < a.links
    THEN Yield([a EXCEPT !.link = @ + 1], input, {"expandClicked"})
    ELSE Yield(Return(a, FALSE), input, {})

\* after the wait of navigateToGiftCardRedemption
Navigated(platform, a, pg, input) == Locate(platform, a, pg, input)

\* after wait(1000): the input is looked up, focused and cleared
Focus(platform, a, pg, input) ==
    IF findElement(pg, SelectorsOf(platform).giftCardInput) = Absent
    THEN Yield(Return(a, FALSE), input, {})
    ELSE Yield([a EXCEPT !.pc = "focused"], << >>, {})

\* after typeText: the apply button is looked up and clicked.  A chain with
\* an invalid selector throws into the catch once no selector before it
\* resolves; Domino's dispatches Enter when the lookup returns null.
Submit(platform, a, pg, input) ==
    IF findElement(pg, SelectorsOf(platform).applyButton) = Thrown
    THEN Yield(Return(a, FALSE), input, {})
    ELSE IF findElement(pg, SelectorsOf(platform).applyButton) = Absent /\ platform # "dominos"
    THEN Yield(Return(a, FALSE), input, {})
    ELSE Yield([a EXCEPT !.pc = "settling", !.submits = @ + 1], input, {"submitted"})

\* typeText: `input.value += char`, the events dispatched on the input (an
\* input event in every profile, a change event in Netflix's and Domino's),
\* then the wait between characters; after the last character, the
\* submission
TypeNext(platform, a, pg, input) ==
    IF a.typed < Len(a.code)
    THEN Yield([a EXCEPT !.pc = "typing", !.typed = @ + 1, !.inputEvents = @ + 1,
                         !.changeEvents = IF platform = "amazon" THEN @ ELSE @ + 1],
               Append(input, a.code[a.typed + 1]), {})
    ELSE Submit(platform, a, pg, input)

\* the end of the profile's applyGiftCard for the verdict of its
\* verification; Netflix waits before it clicks the continue button
Settled(platform, a, pg, input, verdict) ==
    IF verdict # "true" THEN Yield(Return(a, FALSE), input, {})
    ELSE IF platform = "netflix" /\ findElement(pg, NetflixSelectors.continueButton) # Absent
    THEN Yield([a EXCEPT !.pc = "continuing"], input, {})
    ELSE Yield(Return(a, TRUE), input, {})

\* after wait(3000): the verification
Settle(platform, a, pg, input, rh) ==
    Settled(platform, [a EXCEPT !.verified = TRUE, !.held = HeuristicHolds(platform, pg, rh)],
            pg, input, Verify(platform, pg))

\* continueSignupFlow after its wait(1000): the continue button is clicked
Continue(platform, a, pg, input) == Yield(Return(a, TRUE), input, {"continued"})


(***************************************************************************)
(* Fixtures: texts and pages                                               *)
(***************************************************************************)
HostAmazon == <<"w", "w", "w", ".", "a", "m", "a", "z", "o", "n", ".", "c", "o", "m">>
HostNetflix == <<"w", "w", "w", ".", "n", "e", "t", "f", "l", "i", "x", ".", "c", "o", "m">>
HostDominos == <<"w", "w", "w", ".", "d", "o", "m", "i", "n", "o", "s", ".", "c", "o", "m">>
HostOther == <<"e", "x", "a", "m", "p", "l", "e", ".", "o", "r", "g">>
PathHome == <<"/">>

HostOf(platform) ==
    CASE platform = "amazon" -> HostAmazon
      [] platform = "netflix" -> HostNetflix
      [] platform = "dominos" -> HostDominos

\* the profile a hostname of the fixtures belongs to
HostPlatform(hostname) ==
    IF SomeIncluded(hostname, AmazonDomains) THEN "amazon"
    ELSE IF SomeIncluded(hostname, NetflixDomains) THEN "netflix"
    ELSE "dominos"

PathCheckout(hostname) ==
    IF SomeIncluded(hostname, AmazonDomains) THEN <<"/", "g", "p", "/", "b", "u", "y", "/", "s", "p", "c">>
    ELSE IF SomeIncluded(hostname, NetflixDomains) THEN <<"/", "s", "i", "g", "n", "u", "p">>
    ELSE <<"/", "c", "h", "e", "c", "k", "o", "u", "t">>

\* the DOM in which exactly the selectors paired with an element resolve
DomOf(pairs) ==
    LET present == {p \in pairs : p[2] # Absent}
    IN [sel \in {p[1] : p \in present} |-> (CHOOSE p \in present : p[1] = sel)[2]]

BlankPage == [hostname |-> HostOther, pathname |-> PathHome, dom |-> << >>]

TotalChain(platform) ==
    CASE platform = "amazon" -> AmazonSelectors.totalPrice
      [] platform = "netflix" -> NetflixSelectors.totalPrice
      [] platform = "dominos" -> DominosSelectors.totalPrice

\* the selector whose matches are the line items of the profile
ItemsSelector(platform) ==
    CASE platform = "amazon" -> AmazonSelectors.items[2]
      [] platform = "netflix" -> NetflixSelectors.selectedPlan[1]
      [] platform = "dominos" -> DominosSelectors.cartItems[2]

\* the selector of the profile's second source of a total
SecondTotalSelector(platform) ==
    CASE platform = "amazon" -> AmazonSelectors.price[4]
      [] platform = "netflix" -> NetflixSelectors.selectedPlan[1]
      [] platform = "dominos" -> DominosSelectors.totalAny

MaxItemEls == 11
MaxTs == 2

ElOrAbsent(text) == IF text = Absent THEN Absent ELSE El(text)

\* a checkout page of the platform: the first two total elements, a second
\* source of a total and n line-item containers
ExtractPage(platform, t1, t2, t3, n, titled) ==
    LET second == IF platform = "netflix"
                  THEN (IF n = 0 THEN Absent
                        ELSE ElList(1, titled, IF t3 = Absent THEN << >> ELSE <<t3>>))
                  ELSE IF t3 = Absent THEN Absent
                  ELSE IF platform = "dominos" THEN ElList(1, FALSE, <<t3>>)
                  ELSE El(t3)
        items == IF platform = "netflix" \/ n = 0 THEN Absent
                 ELSE ElList(n, titled, IF t3 = Absent THEN << >> ELSE <<t3>>)
    IN [BlankPage EXCEPT
           !.hostname = HostOf(platform),
           !.dom = DomOf({<<TotalChain(platform)[1], ElOrAbsent(t1)>>,
                          <<TotalChain(platform)[2], ElOrAbsent(t2)>>,
                          <<SecondTotalSelector(platform), second>>,
                          <<ItemsSelector(platform), items>>})]

PageTexts == {Absent, TxtDollar, TxtFree}

\* hostnames that contain an allow-listed domain without being it or one of
\* its subdomains: "notamazon.com", and "amazon.com.netflix.com", which is
\* a subdomain of netflix.com only
HostLookalike == <<"n", "o", "t", "a", "m", "a", "z", "o", "n", ".", "c", "o", "m">>
HostDouble == <<"a", "m", "a", "z", "o", "n", ".", "c", "o", "m", ".", "n", "e", "t", "f", "l", "i", "x", ".", "c", "o", "m">>

\* "/checkout/payment": a path every profile's path list matches
PathAny == <<"/", "c", "h", "e", "c", "k", "o", "u", "t", "/", "p", "a", "y", "m", "e", "n", "t">>

\* the first selector of each chain a page may render as its only element
MarkerSelectors ==
    UNION {{SelectorsOf(p).totalPrice[1], SelectorsOf(p).giftCardSection[1],
            SelectorsOf(p).giftCardInput[1], SelectorsOf(p).applyButton[1]} : p \in Platforms}
    \cup {AmazonSelectors.buyNowButton[1], NetflixSelectors.planSelection[1],
          NetflixSelectors.paymentStep[1], DominosSelectors.cartItems[1],
          DominosSelectors.paymentSection[1]}

\* pages for detection: a hostname, a path and at most one rendered element
DetectPages ==
    {[hostname |-> h, pathname |-> p, dom |-> d] :
        h \in {HostAmazon, HostNetflix, HostDominos, HostOther, HostLookalike, HostDouble},
        p \in {PathHome, PathAny},
        d \in {<< >>} \cup {DomOf({<<sel, ElList(1, FALSE, << >>)>>}) : sel \in MarkerSelectors}}

ParsePages ==
    {ExtractPage(p, t1, t2, t3, n, titled) :
        p \in Platforms, t1 \in PageTexts, t2 \in PageTexts, t3 \in {Absent, TxtLower},
        n \in {0, 1, MaxItemEls}, titled \in BOOLEAN}

NoCall == [op |-> "none"]

\* the content script's applyGiftCard once the profile has returned
Finish(a, cp) ==
    IF a.pc # "returned" THEN a
    ELSE IF a.result THEN ReportSucceeded(a, cp)
    ELSE ReportFailed(a, cp)

InFlight(a) == a.pc \notin {"done", "destroyed"}

\* the notifications after the step that took the attempt from before to
\* after: the content script's applyGiftCard shows one when the profile's
\* call has returned.  Without a current platform the success branch throws
\* before it shows anything and the failure branch after it has, and the
\* catch shows an error.
Notified(shn, before, after, cp) ==
    IF before.pc = "done" \/ after.pc # "done" THEN shn
    ELSE IF cp = NoPlatform
    THEN (IF after.outcome = "succeeded" THEN ShowNotification(shn, "error")
          ELSE ShowNotification(ShowNotification(shn, "error"), "error"))
    ELSE ShowNotification(shn, IF after.outcome = "succeeded" THEN "success" ELSE "error")

\* the number of notifications shown
CountShown(shn) == shn.success + shn.error

(***************************************************************************)
(* Pages of the redemption protocol                                        *)
(***************************************************************************)
TxtApplied == <<"G", "i", "f", "t", " ", "c", "a", "r", "d", " ", "a", "p", "p", "l", "i", "e", "d">>
TxtSuccess == <<"S", "u", "c", "c", "e", "s", "s", "!">>

PathRedeem == <<"/", "r", "e", "d", "e", "e", "m">>

\* the elements of a rendered redemption form, up to its part `upto`
FormElements(platform, upto) ==
    {<<SelectorsOf(platform).giftCardSection[1],
       IF upto \in {"section", "input", "button"} THEN ElList(1, FALSE, << >>) ELSE Absent>>,
     <<SelectorsOf(platform).giftCardInput[1],
       IF upto \in {"input", "button"} THEN ElList(1, FALSE, << >>) ELSE Absent>>,
     <<SelectorsOf(platform).applyButton[1],
       IF upto = "button" THEN ElList(1, FALSE, << >>) ELSE Absent>>}

FormParts == {"none", "section", "input", "button"}

MaxExpandLinks == 2

RedeemPage(platform, pathname, upto, total, others) ==
    [hostname |-> HostOf(platform), pathname |-> pathname,
     dom |-> DomOf(FormElements(platform, upto)
                   \cup {<<TotalChain(platform)[1], ElOrAbsent(total)>>} \cup others)]

\* the pages commands arrive on: the form rendered up to some part, with or
\* without a total; Domino's pages without a form may carry expand links,
\* Netflix pages away from /redeem may carry a redeem link, and a complete
\* Netflix form may come with the continue button of the signup flow
RedeemPages(platform) ==
    CASE platform = "amazon" ->
            {RedeemPage("amazon", PathCheckout(HostAmazon), upto, total, {}) :
                upto \in FormParts, total \in {Absent, TxtDollar}}
      [] platform = "dominos" ->
            {RedeemPage("dominos", PathCheckout(HostDominos), upto, total, {}) :
                upto \in FormParts \ {"none"}, total \in {Absent, TxtDollar}}
            \cup {RedeemPage("dominos", PathCheckout(HostDominos), "none", TxtDollar,
                              {<<DominosSelectors.expandLinks,
                                 IF links = 0 THEN Absent ELSE ElList(links, FALSE, << >>)>>}) :
                      links \in {0, MaxExpandLinks}}
      [] platform = "netflix" ->
            {RedeemPage("netflix", PathRedeem, upto, Absent, {}) : upto \in FormParts}
            \cup {RedeemPage("netflix", pathname, "button", Absent,
                              {<<NetflixSelectors.continueButton[1], ElList(1, FALSE, << >>)>>}) :
                      pathname \in {PathRedeem, PathCheckout(HostNetflix)}}
            \cup {RedeemPage("netflix", PathCheckout(HostNetflix), "none", Absent,
                              {<<NetflixSelectors.redeemLink,
                                 IF link THEN ElList(1, FALSE, << >>) ELSE Absent>>}) :
                      link \in BOOLEAN}
      [] OTHER -> {[hostname |-> HostAmazon, pathname |-> PathHome, dom |-> << >>]}

\* what the merchant page shows once a code was submitted
Reactions(platform) ==
    {"banner", "balance"}
        \cup (IF platform = "netflix" THEN {} ELSE {"lowerTotal"})
        \cup (IF platform = "dominos" THEN {"discount"} ELSE {})

React(platform, pg, kind) ==
    LET shown ==
          CASE kind = "banner" ->
                  SelectorsOf(platform).success[1] :>
                      El(IF platform = "netflix" THEN TxtSuccess ELSE TxtApplied)
            [] kind = "balance" -> SelectorsOf(platform).balance[1] :> ElList(1, FALSE, << >>)
            [] kind = "discount" -> DominosSelectors.discount[1] :> ElList(1, FALSE, << >>)
            [] kind = "lowerTotal" -> TotalChain(platform)[1] :> El(TxtLower)
    IN [pg EXCEPT !.dom = shown @@ @]

(***************************************************************************)
(* The transaction monitor of the service worker and the gift card table   *)
(* of the backend, before any call                                         *)
(***************************************************************************)
NoMonitorHistory == [calls |-> 0, sessions |-> << >>]

\* new TransactionMonitor(): an empty map, no timer set, nothing notified
MonitorIdle ==
    /\ monitoring = << >>
    /\ timers = << >>
    /\ polls = << >>
    /\ chromeNotifications = << >>
    /\ storedNotifications = 0
    /\ mhist = NoMonitorHistory

\* a backend that has received no redeem request
BackendIdle ==
    /\ giftCards = << >>
    /\ requests = << >>
    /\ serverTime = 0

ServicesIdle == MonitorIdle /\ BackendIdle

(***************************************************************************)
(* ParseSpec: the pure profile functions applied to drawn inputs           *)
(***************************************************************************)

ParseInit ==
    /\ page \in ParsePages \cup DetectPages
    /\ pcall = NoCall
    /\ currentPlatform = NoPlatform
    /\ payButton = Null
    /\ isInitialized = FALSE
    /\ observer = Null
    /\ listening = FALSE
    /\ readyState = "complete"
    /\ initPc = "returned"
    /\ detectionTimeout = Null
    /\ loadTimeout = Null
    /\ mounted = 0
    /\ sent = NoMessages
    /\ hist = NoHistory
    /\ attempts = NoAttempts
    /\ inputValue = << >>
    /\ rhist = NoRedeemHistory
    /\ notifications = NoNotifications
    /\ lastPayment = Null
    /\ phist = NoPayHistory
    /\ ServicesIdle

CallParsePrice ==
    /\ pcall = NoCall
    /\ \E platform \in Platforms, text \in ParseTexts :
          pcall' = [op |-> "parsePrice", platform |-> platform, text |-> text,
                    result |-> ParsePrice(platform, text)]
    /\ UNCHANGED <<page, sent, engineVars, redeemVars, payVars, serviceVars>>

CallGetCheckoutInfo ==
    /\ pcall = NoCall
    /\ \E platform \in Platforms, ts \in 1..MaxTs :
          pcall' = [op |-> "getCheckoutInfo", platform |-> platform, ts |-> ts,
                    result |-> getCheckoutInfo(platform, page, ts)]
    /\ UNCHANGED <<page, sent, engineVars, redeemVars, payVars, serviceVars>>

CallIsDetected ==
    /\ pcall = NoCall
    /\ \E platform \in Platforms :
          pcall' = [op |-> "isDetected", platform |-> platform,
                    result |-> IsDetected(platform, page)]
    /\ UNCHANGED <<page, sent, engineVars, redeemVars, payVars, serviceVars>>

CallDetectCurrentPlatform ==
    /\ pcall = NoCall
    /\ pcall' = [op |-> "detectCurrentPlatform", result |-> detectCurrentPlatform(page)]
    /\ UNCHANGED <<page, sent, engineVars, redeemVars, payVars, serviceVars>>

ParseNext ==
    \/ CallParsePrice
    \/ CallGetCheckoutInfo
    \/ CallIsDetected
    \/ CallDetectCurrentPlatform

ParseSpec == ParseInit /\ [][ParseNext]_vars

(***************************************************************************)
(* Spec: the content script on a page that loads, mutates and unloads      *)
(***************************************************************************)
\* a promise continuation is queued: it runs before any other task
MicrotaskPending == initPc = "resolved"

\* the rest of initialize() after `await this.waitForPageLoad()`
InitializeContinues ==
    /\ initPc = "resolved"
    /\ \E r \in {DetectAndSetupPlatform(page, payButton, mounted, sent)} :
          /\ currentPlatform' = r.currentPlatform
          /\ payButton' = r.payButton
          /\ mounted' = r.mounted
          /\ sent' = r.sent
    /\ observer' = Connected
    /\ listening' = TRUE
    /\ isInitialized' = TRUE
    /\ initPc' = "initialized"
    /\ hist' = Ran(hist, "initialize")
    /\ UNCHANGED <<page, readyState, detectionTimeout, loadTimeout>>
    /\ UNCHANGED <<redeemVars, payVars, pcall, serviceVars>>

\* resolve() of waitForPageLoad: the first call queues the continuation
Resolve(pc) == IF pc = "waitForPageLoad" THEN "resolved" ELSE pc

\* the window's load event
LoadEvent ==
    /\ ~MicrotaskPending
    /\ readyState = "interactive"
    /\ readyState' = "complete"
    /\ initPc' = Resolve(initPc)
    /\ hist' = IF initPc = "waitForPageLoad" THEN Ran(hist, "load") ELSE hist
    /\ UNCHANGED <<page, currentPlatform, payButton, mounted, sent, observer, listening,
                   isInitialized, detectionTimeout, loadTimeout>>
    /\ UNCHANGED <<redeemVars, payVars, pcall, serviceVars>>

\* the fallback timer of waitForPageLoad
LoadTimeout ==
    /\ ~MicrotaskPending
    /\ loadTimeout = Expired
    /\ loadTimeout' = Null
    /\ initPc' = Resolve(initPc)
    /\ hist' = Ran(hist, "loadTimeout")
    /\ UNCHANGED <<page, currentPlatform, payButton, mounted, sent, observer, listening,
                   isInitialized, readyState, detectionTimeout>>
    /\ UNCHANGED <<redeemVars, payVars, pcall, serviceVars>>

\* the selectors whose elements the page adds and removes
MutableSelectors(hostname) ==
    IF SomeIncluded(hostname, AmazonDomains)
    THEN {AmazonSelectors.buyNowButton[1], AmazonSelectors.totalPrice[1],
          AmazonSelectors.injection[1]}
    ELSE IF SomeIncluded(hostname, NetflixDomains)
    THEN {NetflixSelectors.planSelection[1], NetflixSelectors.totalPrice[1],
          NetflixSelectors.fallback[1]}
    ELSE IF SomeIncluded(hostname, DominosDomains)
    THEN {DominosSelectors.cartItems[1], DominosSelectors.totalPrice[1],
          DominosSelectors.fallback[1]}
    ELSE {"div"}

ElementFor(selector) ==
    IF selector \in {AmazonSelectors.totalPrice[1], NetflixSelectors.totalPrice[1],
                     DominosSelectors.totalPrice[1]}
    THEN El(TxtDollar)
    ELSE ElList(1, FALSE, << >>)

\* the page inserts an element; a connected observer is called back with
\* the childList record and restarts the debounce timer
PageInsertsElement ==
    /\ ~MicrotaskPending
    /\ hist.mutations < MaxMutations
    /\ \E selector \in MutableSelectors(page.hostname) \ DOMAIN page.dom :
          page' = [page EXCEPT !.dom = (selector :> ElementFor(selector)) @@ @]
    /\ IF observer = Connected
       THEN /\ detectionTimeout' = ArmDetectionTimeout(detectionTimeout)
            /\ hist' = Ran(ObserverSignal([hist EXCEPT !.mutations = @ + 1]), "observer")
       ELSE /\ hist' = [hist EXCEPT !.mutations = @ + 1]
            /\ UNCHANGED detectionTimeout
    /\ UNCHANGED <<currentPlatform, payButton, mounted, sent, observer, listening,
                   isInitialized, initPc, readyState, loadTimeout>>
    /\ UNCHANGED <<redeemVars, payVars, pcall, serviceVars>>

\* the page removes an element: the record has no added node, shouldCheck
\* stays false
PageRemovesElement ==
    /\ ~MicrotaskPending
    /\ hist.mutations < MaxMutations
    /\ \E selector \in DOMAIN page.dom :
          page' = [page EXCEPT !.dom = [s \in DOMAIN page.dom \ {selector} |-> page.dom[s]]]
    /\ hist' = [hist EXCEPT !.mutations = @ + 1]
    /\ UNCHANGED <<currentPlatform, payButton, mounted, sent, observer, listening,
                   isInitialized, initPc, readyState, detectionTimeout, loadTimeout>>
    /\ UNCHANGED <<redeemVars, payVars, pcall, serviceVars>>

\* history.pushState / replaceState or a popstate: the URL changes, the
\* document stays and no node is inserted.  The content script registers
\* no listener for it and its MutationObserver gets no record, so none of
\* its fields changes.  (PaymentDetector.setupNavigationListener belongs to
\* another script and schedules that script's scanForPaymentForms.)
PageNavigates ==
    /\ ~MicrotaskPending
    /\ hist.mutations < MaxMutations
    /\ page' = [page EXCEPT !.pathname = IF @ = PathHome THEN PathCheckout(page.hostname)
                                         ELSE PathHome]
    /\ hist' = [hist EXCEPT !.mutations = @ + 1, !.unscanned = (observer = Connected)]
    /\ UNCHANGED <<currentPlatform, payButton, mounted, sent, observer, listening,
                   isInitialized, initPc, readyState, detectionTimeout, loadTimeout>>
    /\ UNCHANGED <<redeemVars, payVars, pcall, serviceVars>>

\* retryPlatformDetection that returns as soon as a platform is known
RetryPlatformDetectionOnce(cp, pg, pb, mnt, snt) ==
    IF cp # NoPlatform
    THEN [currentPlatform |-> cp, payButton |-> pb, mounted |-> mnt, sent |-> snt,
          injected |-> FALSE]
    ELSE DetectAndSetupPlatform(pg, pb, mnt, snt)

\* retryPlatformDetection without its early return
RetryPlatformDetectionAlways(cp, pg, pb, mnt, snt) == DetectAndSetupPlatform(pg, pb, mnt, snt)

\* retryPlatformDetection: the fields after it
RetryPlatformDetection(cp, pg, pb, mnt, snt) ==
    IF cp # NoPlatform /\ HasPayButton(pb)
    THEN [currentPlatform |-> cp, payButton |-> pb, mounted |-> mnt, sent |-> snt,
          injected |-> FALSE]
    ELSE DetectAndSetupPlatform(pg, pb, mnt, snt)

\* the debounce timer fires: retryPlatformDetection.  The button it mounts
\* is an element inserted under document.body, which a connected observer
\* reports in turn.
DetectionTimeoutFires ==
    /\ ~MicrotaskPending
    /\ detectionTimeout = Expired
    /\ \E r \in {RetryPlatformDetection(currentPlatform, page, payButton, mounted, sent)},
          h \in {Ran([hist EXCEPT !.rescans = @ + 1, !.scans = @ + 1,
                                  !.lastBurst = hist.burst, !.burst = 0,
                                  !.unscanned = FALSE],
                     "retryPlatformDetection")} :
          /\ currentPlatform' = r.currentPlatform
          /\ payButton' = r.payButton
          /\ mounted' = r.mounted
          /\ sent' = r.sent
          /\ IF r.injected /\ observer = Connected
             THEN /\ detectionTimeout' = ArmDetectionTimeout(Null)
                  /\ hist' = ObserverSignal(h)
             ELSE /\ detectionTimeout' = Null
                  /\ hist' = h
    /\ UNCHANGED <<page, observer, listening, isInitialized, initPc, readyState, loadTimeout>>
    /\ UNCHANGED <<redeemVars, payVars, pcall, serviceVars>>

\* cleanup(), the beforeunload handler
Cleanup ==
    /\ ~MicrotaskPending
    /\ observer' = Null
    /\ IF payButton # Null
       THEN /\ mounted' = RemovePayButton(mounted)
            /\ payButton' = Null
       ELSE UNCHANGED <<mounted, payButton>>
    /\ hist' = [hist EXCEPT !.cleaned = TRUE]
    /\ UNCHANGED <<page, currentPlatform, sent, listening, isInitialized, initPc, readyState,
                   detectionTimeout, loadTimeout>>
    /\ UNCHANGED <<redeemVars, payVars, pcall, serviceVars>>

PendingMs == {t.ms : t \in {detectionTimeout, loadTimeout} \ {Null}}

\* time passes, up to the next deadline; an expired timer runs first
Tick ==
    /\ ~MicrotaskPending
    /\ PendingMs # {}
    /\ 0 \notin PendingMs
    /\ LET d == CHOOSE d \in PendingMs \cup {TickMs} : \A e \in PendingMs \cup {TickMs} : d <= e
       IN /\ detectionTimeout' =
                 IF detectionTimeout = Null THEN Null ELSE Timer(detectionTimeout.ms - d)
          /\ loadTimeout' = IF loadTimeout = Null THEN Null ELSE Timer(loadTimeout.ms - d)
          /\ hist' = IF detectionTimeout = Null THEN hist
                     ELSE [hist EXCEPT !.sinceSignal = @ + d]
    /\ UNCHANGED <<page, currentPlatform, payButton, mounted, sent, observer, listening,
                   isInitialized, initPc, readyState>>
    /\ UNCHANGED <<redeemVars, payVars, pcall, serviceVars>>

\* the pages the script is constructed on: nothing rendered yet, or the
\* whole checkout rendered
EnginePages ==
    {[hostname |-> h, pathname |-> p,
      dom |-> IF rendered THEN [s \in MutableSelectors(h) |-> ElementFor(s)] ELSE << >>] :
        h \in {HostAmazon, HostNetflix, HostDominos, HostOther},
        p \in {PathHome, <<"/", "g", "p", "/", "b", "u", "y", "/", "s", "p", "c">>, <<"/", "s", "i", "g", "n", "u", "p">>, <<"/", "c", "h", "e", "c", "k", "o", "u", "t">>},
        rendered \in BOOLEAN}

\* the state when the constructor returns: initialize() has run up to its
\* first await, or has returned on an unsupported domain
Init ==
    /\ page \in {pg \in EnginePages : pg.pathname \in {PathHome, PathCheckout(pg.hostname)}}
    /\ readyState \in {"interactive", "complete"}
    /\ initPc = IF ~isSupportedDomain(page.hostname) THEN "returned"
                ELSE IF readyState = "complete" THEN "resolved" ELSE "waitForPageLoad"
    /\ loadTimeout = IF isSupportedDomain(page.hostname) /\ readyState = "interactive"
                     THEN Timer(LoadFallbackMs) ELSE Null
    /\ currentPlatform = NoPlatform
    /\ payButton = Null
    /\ isInitialized = FALSE
    /\ observer = Null
    /\ listening = FALSE
    /\ detectionTimeout = Null
    /\ mounted = 0
    /\ sent = NoMessages
    /\ hist = NoHistory
    /\ attempts = NoAttempts
    /\ inputValue = << >>
    /\ rhist = NoRedeemHistory
    /\ notifications = NoNotifications
    /\ lastPayment = Null
    /\ phist = NoPayHistory
    /\ pcall = NoCall
    /\ ServicesIdle

Next ==
    \/ InitializeContinues
    \/ LoadEvent
    \/ LoadTimeout
    \/ PageInsertsElement
    \/ PageRemovesElement
    \/ PageNavigates
    \/ DetectionTimeoutFires
    \/ Cleanup
    \/ Tick

Spec == Init /\ [][Next]_vars

(***************************************************************************)
(* PaySpec: the pay flow of an initialized content script whose button is  *)
(* mounted on a checkout page                                              *)
(***************************************************************************)
\* the number of clicks, payment commands and total updates followed
MaxPayEvents == 3

\* the texts the total element of the checkout may hold
PayTexts == {TxtDollar, TxtLower, TxtFree}

\* a checkout page of the platform whose first total element holds text
PayPage(platform, text) ==
    [hostname |-> HostOf(platform), pathname |-> PathCheckout(HostOf(platform)),
     dom |-> DomOf({<<TotalChain(platform)[1], El(text)>>,
                    <<SelectorsOf(platform).injection[1], ElList(1, FALSE, << >>)>>})]

\* the state once initialize() has returned on a checkout page: the
\* platform is detected, the snapshot of that moment (held in pcall) was
\* reported if there was one, the button is mounted and the observer and
\* the message listener are set up
PayInit ==
    /\ currentPlatform \in Platforms
    /\ page \in {PayPage(currentPlatform, text) : text \in PayTexts}
    /\ pcall = [op |-> "getCheckoutInfo", platform |-> currentPlatform, ts |-> 1,
                result |-> getCheckoutInfo(currentPlatform, page, 1)]
    /\ payButton = CreatePayButton(currentPlatform)
    /\ mounted = 1
    /\ sent = [NoMessages EXCEPT !.PAY_BUTTON_INJECTED = 1,
                                 !.CHECKOUT_INFO_DETECTED = IF pcall.result = Null THEN 0 ELSE 1]
    /\ isInitialized = TRUE
    /\ observer = Connected
    /\ listening = TRUE
    /\ readyState = "complete"
    /\ initPc = "initialized"
    /\ detectionTimeout = Null
    /\ loadTimeout = Null
    /\ hist = NoHistory
    /\ attempts = NoAttempts
    /\ inputValue = << >>
    /\ rhist = NoRedeemHistory
    /\ notifications = NoNotifications
    /\ lastPayment = Null
    /\ phist = NoPayHistory
    /\ ServicesIdle

\* a click on the mounted button: handlePayButtonClick runs to its end (it
\* awaits nothing).  sendMessage either throws or returns a promise that
\* settles later.
ClickPayButton ==
    /\ payButton # Null
    /\ mounted > 0
    /\ currentPlatform # NoPlatform
    /\ phist.events < MaxPayEvents
    /\ \E ts \in 2..MaxTs, delivery \in {"returns", "throws"} :
          \E r \in {HandlePayButtonClick(currentPlatform,
                                         getCheckoutInfo(currentPlatform, page, ts),
                                         payButton, sent, notifications, delivery)} :
             /\ payButton' = r.payButton
             /\ sent' = r.sent
             /\ notifications' = r.shown
             /\ lastPayment' = IF r.message = Null THEN lastPayment ELSE r.message
             /\ phist' = [phist EXCEPT !.events = @ + 1, !.clicked = TRUE, !.ts = ts,
                                       !.delivery = IF r.threw THEN "threw"
                                                    ELSE IF r.message = Null THEN "none"
                                                    ELSE "pending",
                                       !.lastCommand = "none"]
             /\ detectionTimeout' =
                   Observed(observer, detectionTimeout, r.shown.error - notifications.error)
             /\ hist' = SignalIf(observer, hist, r.shown.error - notifications.error)
    /\ UNCHANGED <<page, pcall, serviceVars, currentPlatform, mounted, observer, listening, isInitialized,
                   initPc, readyState, loadTimeout, redeemVars>>

\* the background script answers the message: the promise resolves and no
\* code of the content script waits for it
DeliveryResolves ==
    /\ phist.delivery = "pending"
    /\ phist' = [phist EXCEPT !.delivery = "delivered"]
    /\ UNCHANGED <<page, pcall, serviceVars, sent, engineVars, redeemVars, notifications, lastPayment>>

\* no receiver: the promise rejects.  handlePayButtonClick has returned
\* without awaiting it and attached no handler, so no code runs.
DeliveryRejects ==
    /\ phist.delivery = "pending"
    /\ phist' = [phist EXCEPT !.delivery = "rejected"]
    /\ UNCHANGED <<page, pcall, serviceVars, sent, engineVars, redeemVars, notifications, lastPayment>>

\* the onMessage listener receives PAYMENT_COMPLETED or PAYMENT_FAILED
ReceivePayment(type) ==
    /\ listening
    /\ phist.events < MaxPayEvents
    /\ payButton' = SetPayButtonLoading(payButton, FALSE)
    /\ notifications' = ShowNotification(notifications,
                                         IF type = "PAYMENT_COMPLETED" THEN "success"
                                         ELSE "error")
    /\ detectionTimeout' = Observed(observer, detectionTimeout, 1)
    /\ hist' = SignalIf(observer, hist, 1)
    /\ phist' = [phist EXCEPT !.events = @ + 1, !.clicked = FALSE, !.lastCommand = type]
    /\ UNCHANGED <<page, pcall, serviceVars, sent, lastPayment, currentPlatform, mounted, observer,
                   listening, isInitialized, initPc, readyState, loadTimeout, redeemVars>>

ReceivePaymentCompleted == ReceivePayment("PAYMENT_COMPLETED")
ReceivePaymentFailed == ReceivePayment("PAYMENT_FAILED")

\* the page rewrites the text of its total: no element is added, the
\* observer callback leaves shouldCheck false
PageUpdatesTotal ==
    /\ phist.events < MaxPayEvents
    /\ TotalChain(HostPlatform(page.hostname))[1] \in DOMAIN page.dom
    /\ \E text \in PayTexts \ {page.dom[TotalChain(HostPlatform(page.hostname))[1]].text} :
          page' = [page EXCEPT !.dom[TotalChain(HostPlatform(page.hostname))[1]] = El(text)]
    /\ phist' = [phist EXCEPT !.events = @ + 1, !.clicked = FALSE]
    /\ UNCHANGED <<pcall, serviceVars, sent, engineVars, redeemVars, notifications, lastPayment>>

PayNext ==
    \/ ClickPayButton
    \/ DeliveryResolves
    \/ DeliveryRejects
    \/ ReceivePaymentCompleted
    \/ ReceivePaymentFailed
    \/ PageUpdatesTotal
    \/ DetectionTimeoutFires
    \/ Cleanup
    \/ Tick

PaySpec == PayInit /\ [][PayNext]_vars

(***************************************************************************)
(* RedeemSpec: apply-gift-card commands on an initialized content script   *)
(***************************************************************************)
RedeemInit ==
    /\ currentPlatform \in Platforms \cup {NoPlatform}
    /\ page \in RedeemPages(currentPlatform)
    /\ payButton = IF currentPlatform = NoPlatform THEN Null
                   ELSE SetPayButtonLoading(CreatePayButton(currentPlatform), TRUE)
    /\ isInitialized = TRUE
    /\ observer = Connected
    /\ listening = TRUE
    /\ readyState = "complete"
    /\ initPc = "initialized"
    /\ detectionTimeout = Null
    /\ loadTimeout = Null
    /\ mounted = IF currentPlatform = NoPlatform THEN 0 ELSE 1
    /\ sent = NoMessages
    /\ hist = NoHistory
    /\ attempts = NoAttempts
    /\ inputValue = << >>
    /\ rhist = NoRedeemHistory
    /\ notifications = NoNotifications
    /\ lastPayment = Null
    /\ phist = NoPayHistory
    /\ pcall = NoCall
    /\ ServicesIdle

\* the fields of the content script a redemption step leaves alone
redeemFrame == <<page, pcall, serviceVars, currentPlatform, payButton, isInitialized, observer, listening,
                 readyState, initPc, loadTimeout, mounted, lastPayment, phist>>

\* the notification of a step and the observer's callback for its element
Shows(before, after) ==
    \E shn \in {Notified(notifications, before, after, currentPlatform)} :
       /\ notifications' = shn
       /\ detectionTimeout' =
             Observed(observer, detectionTimeout, CountShown(shn) - CountShown(notifications))
       /\ hist' = SignalIf(observer, hist, CountShown(shn) - CountShown(notifications))

\* the messages the attempt a has added to those sent
Reported(snt, before, after) ==
    IF after.notified = before.notified THEN snt
    ELSE SendMessage(snt, IF after.outcome = "succeeded" THEN "GIFT_CARD_APPLIED_SUCCESS"
                          ELSE "GIFT_CARD_APPLIED_FAILED")

\* the state after a step of attempt k that yields y
Stepped(k, y) ==
    /\ attempts' = [attempts EXCEPT ![k] = Finish(y.a, currentPlatform)]
    /\ sent' = Reported(sent, attempts[k], Finish(y.a, currentPlatform))
    /\ inputValue' = y.input
    /\ rhist' = Raise(rhist, y.flags)
    /\ Shows(attempts[k], Finish(y.a, currentPlatform))
    /\ UNCHANGED redeemFrame

\* the onMessage listener receives APPLY_GIFT_CARD: applyGiftCard runs up to
\* its first await (or returns at once without a platform), then the
\* listener answers {success: true}
ReceiveApplyGiftCard ==
    /\ listening
    /\ Len(attempts) < MaxCommands
    /\ IF currentPlatform = NoPlatform
       THEN /\ attempts' = Append(attempts, [Called(Len(attempts) + 1, currentPlatform) EXCEPT !.pc = "done"])
            /\ UNCHANGED <<sent, inputValue, rhist, notifications, detectionTimeout, hist>>
       ELSE \E y \in {Start(currentPlatform, Called(Len(attempts) + 1, currentPlatform), page, inputValue)} :
               /\ attempts' = Append(attempts, Finish(y.a, currentPlatform))
               /\ sent' = Reported(sent, Called(Len(attempts) + 1, currentPlatform),
                                   Finish(y.a, currentPlatform))
               /\ inputValue' = y.input
               /\ rhist' = Raise(rhist, y.flags)
               /\ Shows(Called(Len(attempts) + 1, currentPlatform), Finish(y.a, currentPlatform))
    /\ UNCHANGED redeemFrame

ExpandWaitElapses ==
    \E k \in DOMAIN attempts :
       /\ attempts[k].pc = "expanding"
       /\ Stepped(k, Expanded(attempts[k].platform, attempts[k], page, inputValue))

NavigationWaitElapses ==
    \E k \in DOMAIN attempts :
       /\ attempts[k].pc = "navigating"
       /\ Stepped(k, Navigated(attempts[k].platform, attempts[k], page, inputValue))

ScrollWaitElapses ==
    \E k \in DOMAIN attempts :
       /\ attempts[k].pc = "scrolled"
       /\ Stepped(k, Focus(attempts[k].platform, attempts[k], page, inputValue))

TypingWaitElapses ==
    \E k \in DOMAIN attempts :
       /\ attempts[k].pc \in {"focused", "typing"}
       /\ Stepped(k, TypeNext(attempts[k].platform, attempts[k], page, inputValue))

SettleWaitElapses ==
    \E k \in DOMAIN attempts :
       /\ attempts[k].pc = "settling"
       /\ \E y \in {Settle(attempts[k].platform, attempts[k], page, inputValue, rhist)} :
             Stepped(k, y)

ContinueWaitElapses ==
    \E k \in DOMAIN attempts :
       /\ attempts[k].pc = "continuing"
       /\ Stepped(k, Continue(attempts[k].platform, attempts[k], page, inputValue))

\* the merchant page answers a submitted code
PageShowsResult ==
    /\ listening
    /\ rhist.submitted /\ ~rhist.reacted
    /\ \E kind \in Reactions(currentPlatform) :
          /\ kind = "lowerTotal" => TotalChain(currentPlatform)[1] \in DOMAIN page.dom
          /\ page' = React(currentPlatform, page, kind)
          /\ rhist' = [rhist EXCEPT !.reacted = TRUE, !.indicatorEver = TRUE,
                                    !.totalDecreased = (kind = "lowerTotal")]
    /\ UNCHANGED <<attempts, inputValue, sent, pcall, serviceVars, engineVars, payVars>>

\* the page opens its gift card form after a click on an expand link
PageRevealsSection ==
    /\ rhist.expandClicked
    /\ SelectorsOf(currentPlatform).giftCardSection[1] \notin DOMAIN page.dom
    /\ page' = [page EXCEPT !.dom = DomOf(FormElements(currentPlatform, "button")) @@ @]
    /\ UNCHANGED <<attempts, inputValue, sent, rhist, pcall, serviceVars, engineVars, payVars>>

\* a single-page application routes the clicked redeem link itself
PageRoutesToRedeem ==
    /\ listening
    /\ rhist.linkClicked
    /\ page.pathname # PathRedeem
    /\ page' = [page EXCEPT !.pathname = PathRedeem,
                            !.dom = DomOf(FormElements(currentPlatform, "button")) @@ @]
    /\ UNCHANGED <<attempts, inputValue, sent, rhist, pcall, serviceVars, engineVars, payVars>>

\* the document is replaced (the location was set, or the clicked link or
\* continue button navigates): the script and its pending waits are gone
PageUnloads ==
    /\ listening
    /\ rhist.leaving \/ rhist.linkClicked \/ rhist.continued
    /\ attempts' = [k \in DOMAIN attempts |->
                      IF InFlight(attempts[k]) THEN [attempts[k] EXCEPT !.pc = "destroyed"]
                      ELSE attempts[k]]
    /\ listening' = FALSE
    /\ UNCHANGED <<page, inputValue, sent, rhist, pcall, serviceVars, currentPlatform, payButton,
                   isInitialized, observer, readyState, initPc, detectionTimeout, loadTimeout,
                   mounted, hist, payVars>>

RedeemNext ==
    \/ ReceiveApplyGiftCard
    \/ ExpandWaitElapses
    \/ NavigationWaitElapses
    \/ ScrollWaitElapses
    \/ TypingWaitElapses
    \/ SettleWaitElapses
    \/ ContinueWaitElapses
    \/ PageShowsResult
    \/ PageRevealsSection
    \/ PageRoutesToRedeem
    \/ PageUnloads

\* The debounce timer a notification arms is not followed here: a platform
\* is detected and the button mounted whenever one is shown, so the re-scan
\* it schedules returns at once.
RedeemSpec == RedeemInit /\ [][RedeemNext]_vars

(***************************************************************************)
(* ScanRedeemSpec: apply-gift-card commands on a content script that has   *)
(* detected its platform but found no injection point, while the page      *)
(* changes and the debounced re-scan runs                                  *)
(***************************************************************************)
\* the state after initialize() on a page with the redemption form that
\* the platform's profile detects and that offers no injection point
ScanRedeemInit ==
    /\ page \in {RedeemPage(p, PathCheckout(HostOf(p)), "button", total, {}) :
                    p \in Platforms, total \in {Absent, TxtDollar}}
    /\ \E r \in {DetectAndSetupPlatform(page, Null, 0, NoMessages)} :
          /\ r.currentPlatform # NoPlatform
          /\ r.payButton = Null
          /\ currentPlatform = r.currentPlatform
          /\ payButton = r.payButton
          /\ mounted = r.mounted
          /\ sent = r.sent
    /\ isInitialized = TRUE
    /\ observer = Connected
    /\ listening = TRUE
    /\ readyState = "complete"
    /\ initPc = "initialized"
    /\ detectionTimeout = Null
    /\ loadTimeout = Null
    /\ hist = NoHistory
    /\ attempts = NoAttempts
    /\ inputValue = << >>
    /\ rhist = NoRedeemHistory
    /\ notifications = NoNotifications
    /\ lastPayment = Null
    /\ phist = NoPayHistory
    /\ pcall = NoCall
    /\ ServicesIdle

\* The pages of this specification carry the whole form and never an expand
\* link or a continue button, so no attempt waits in the expand loop or
\* before continueSignupFlow.
ScanRedeemNext ==
    \/ ReceiveApplyGiftCard
    \/ NavigationWaitElapses
    \/ ScrollWaitElapses
    \/ TypingWaitElapses
    \/ SettleWaitElapses
    \/ PageInsertsElement
    \/ PageNavigates
    \/ DetectionTimeoutFires
    \/ Tick

ScanRedeemSpec == ScanRedeemInit /\ [][ScanRedeemNext]_vars

(***************************************************************************)
(* QuiesceSpec: the observer, the debounce timer and the elements the      *)
(* script itself inserts.  The script has detected its platform and holds  *)
(* no button yet; the page inserts a bounded number of elements and the    *)
(* background script sends a bounded number of payment commands.  The      *)
(* event loop lets time pass and runs an expired timer's callback: weak     *)
(* fairness of Tick and of the step that consumes the expired timer.       *)
(***************************************************************************)
\* a step of the event loop that runs the expired debounce timer's callback;
\* with QuiesceNext it is exactly a DetectionTimeoutFires step, and it is
\* enabled exactly when DetectionTimeoutFires is
TimerCallbackRuns ==
    /\ ~MicrotaskPending
    /\ detectionTimeout = Expired
    /\ detectionTimeout' \in {Null, Timer(DebounceMs)}

QuiesceNext ==
    \/ PageInsertsElement
    \/ ReceivePaymentCompleted
    \/ ReceivePaymentFailed
    \/ DetectionTimeoutFires
    \/ Tick

QuiesceSpec ==
    /\ ScanRedeemInit
    /\ [][QuiesceNext]_vars
    /\ WF_vars(Tick)
    /\ WF_detectionTimeout(TimerCallbackRuns)

(***************************************************************************)
(* RerenderSpec: the content script on a page that re-renders its checkout *)
(* and drops the nodes it did not render itself, the mounted button among  *)
(* them                                                                    *)
(***************************************************************************)
\* the page removes the mounted button from the document: the record has
\* no added node, so shouldCheck stays false; this.payButton still refers
\* to the detached element
PageRemovesPayButton ==
    /\ ~MicrotaskPending
    /\ hist.mutations < MaxMutations
    /\ payButton # Null
    /\ mounted > 0
    /\ mounted' = mounted - 1
    /\ hist' = [hist EXCEPT !.mutations = @ + 1]
    /\ UNCHANGED <<page, currentPlatform, payButton, sent, observer, listening,
                   isInitialized, initPc, readyState, detectionTimeout, loadTimeout>>
    /\ UNCHANGED <<redeemVars, payVars, pcall, serviceVars>>

RerenderNext ==
    \/ InitializeContinues
    \/ LoadEvent
    \/ LoadTimeout
    \/ PageInsertsElement
    \/ PageRemovesElement
    \/ PageRemovesPayButton
    \/ PageNavigates
    \/ DetectionTimeoutFires
    \/ Cleanup
    \/ Tick

RerenderSpec == Init /\ [][RerenderNext]_vars

(***************************************************************************)
(* MonitorSpec: the TransactionMonitor of the service worker               *)
(* (transaction-monitor.ts).  A session is one monitorTransaction call     *)
(* that passed the guard of line 16: it sets the polling interval and the  *)
(* auto-stop timeout.                                                      *)
(***************************************************************************)
Hashes == {"0xa", "0xb"}

\* the period of the polling interval and the delay of the auto-stop timer
PollMs == 10000
AutoStopMs == 3600000

\* notifications.slice(0, 50)
KeepNotifications == 50

\* the calls MONITOR_TRANSACTION and onSuspend make, the interval callbacks
\* followed, and the longest step of the clock
MaxMonitorCalls == 3
MaxPolls == 2
MonitorStepMs == 1800000

LiveTimers(kind) == {i \in DOMAIN timers : timers[i].kind = kind /\ timers[i].live}

\* the session that set the interval the map holds for the hash
SessionOf(mh, mon, hash) ==
    CHOOSE k \in DOMAIN mh.sessions : mh.sessions[k].interval = mon[hash]

\* stopMonitoring(hash): the interval the map holds for the hash is cleared
\* and the entry deleted; without an entry nothing happens.  The history
\* records what ended the session.
StopMonitoring(mon, tms, mh, hash, cause) ==
    IF hash \in DOMAIN mon
    THEN [monitoring |-> [h \in DOMAIN mon \ {hash} |-> mon[h]],
          timers |-> [tms EXCEPT ![mon[hash]].live = FALSE],
          mhist |-> [mh EXCEPT !.sessions[SessionOf(mh, mon, hash)].ended = cause]]
    ELSE [monitoring |-> mon, timers |-> tms, mhist |-> mh]

\* the MONITOR_TRANSACTION message: monitorTransaction(hash)
MonitorTransaction ==
    /\ mhist.calls < MaxMonitorCalls
    /\ \E hash \in Hashes :
          IF hash \in DOMAIN monitoring
          THEN /\ mhist' = [mhist EXCEPT !.calls = @ + 1]
               /\ UNCHANGED <<monitoring, timers>>
          ELSE LET interval == Len(timers) + 1
                   timeout == Len(timers) + 2
               IN /\ timers' = timers \o
                        <<[kind |-> "interval", hash |-> hash, ms |-> PollMs, live |-> TRUE],
                          [kind |-> "timeout", hash |-> hash, ms |-> AutoStopMs, live |-> TRUE]>>
                  /\ monitoring' = (hash :> interval) @@ monitoring
                  /\ mhist' = [mhist EXCEPT !.calls = @ + 1,
                                           !.sessions = Append(@, [hash |-> hash,
                                                                   interval |-> interval,
                                                                   timeout |-> timeout,
                                                                   ended |-> "no"])]
    /\ UNCHANGED <<polls, chromeNotifications, storedNotifications>>
    /\ UNCHANGED <<page, pcall, sent, engineVars, redeemVars, payVars, backendVars>>

\* onSuspend: stopAllMonitoring() clears every interval of the map and the
\* map; the auto-stop timeouts stay set
StopAllMonitoring ==
    /\ mhist.calls < MaxMonitorCalls
    /\ monitoring # << >>
    /\ timers' = [i \in DOMAIN timers |->
                    IF \E h \in DOMAIN monitoring : monitoring[h] = i
                    THEN [timers[i] EXCEPT !.live = FALSE] ELSE timers[i]]
    /\ monitoring' = << >>
    /\ mhist' = [mhist EXCEPT !.calls = @ + 1,
                             !.sessions = [k \in DOMAIN @ |->
                                 IF \E h \in DOMAIN monitoring : monitoring[h] = @[k].interval
                                 THEN [@[k] EXCEPT !.ended = "stop"] ELSE @[k]]]
    /\ UNCHANGED <<polls, chromeNotifications, storedNotifications>>
    /\ UNCHANGED <<page, pcall, sent, engineVars, redeemVars, payVars, backendVars>>

\* a due interval runs its callback up to `await apiClient.getPaymentStatus`
IntervalFires ==
    /\ Len(polls) < MaxPolls
    /\ \E i \in LiveTimers("interval") :
          /\ timers[i].ms = 0
          /\ polls' = Append(polls, [hash |-> timers[i].hash, pc |-> "status",
                                     status |-> "none", snapshot |-> 0])
    /\ UNCHANGED <<monitoring, timers, chromeNotifications, storedNotifications, mhist>>
    /\ UNCHANGED <<page, pcall, sent, engineVars, redeemVars, payVars, backendVars>>

\* getPaymentStatus returns: without success or data, or with an exception,
\* the callback ends; with a status notifyStatusChange creates the
\* notification whose id is the hash and awaits the stored list
PollReturns ==
    /\ \E p \in DOMAIN polls, status \in {"error", "pending", "confirmed", "failed"} :
          /\ polls[p].pc = "status"
          /\ IF status = "error"
             THEN /\ polls' = [polls EXCEPT ![p].pc = "done"]
                  /\ UNCHANGED chromeNotifications
             ELSE /\ polls' = [polls EXCEPT ![p].pc = "get", ![p].status = status]
                  /\ chromeNotifications' =
                        [h \in DOMAIN chromeNotifications \cup {polls[p].hash} |->
                            IF h = polls[p].hash THEN status ELSE chromeNotifications[h]]
    /\ UNCHANGED <<monitoring, timers, storedNotifications, mhist>>
    /\ UNCHANGED <<page, pcall, sent, engineVars, redeemVars, payVars, backendVars>>

\* chrome.storage.local.get returns the list; the entry is put in front,
\* the list cut to 50 and chrome.storage.local.set awaited
StorageGetReturns ==
    /\ \E p \in DOMAIN polls :
          /\ polls[p].pc = "get"
          /\ polls' = [polls EXCEPT ![p].pc = "set", ![p].snapshot = storedNotifications]
    /\ UNCHANGED <<monitoring, timers, chromeNotifications, storedNotifications, mhist>>
    /\ UNCHANGED <<page, pcall, sent, engineVars, redeemVars, payVars, backendVars>>

\* chrome.storage.local.set returns, then notifyStatusChange: the callback
\* stops the monitoring of its hash on a terminal status
StorageSetReturns ==
    /\ \E p \in DOMAIN polls :
          /\ polls[p].pc = "set"
          /\ polls' = [polls EXCEPT ![p].pc = "done"]
          /\ storedNotifications' =
                IF polls[p].snapshot + 1 > KeepNotifications THEN KeepNotifications
                ELSE polls[p].snapshot + 1
          /\ \E r \in {IF polls[p].status \in {"confirmed", "failed"}
                       THEN StopMonitoring(monitoring, timers, mhist, polls[p].hash, "terminal")
                       ELSE [monitoring |-> monitoring, timers |-> timers, mhist |-> mhist]} :
                /\ monitoring' = r.monitoring
                /\ timers' = r.timers
                /\ mhist' = r.mhist
    /\ UNCHANGED chromeNotifications
    /\ UNCHANGED <<page, pcall, sent, engineVars, redeemVars, payVars, backendVars>>

\* the auto-stop timeout of a session fires: stopMonitoring(hash)
AutoStopFires ==
    /\ \E i \in LiveTimers("timeout") :
          /\ timers[i].ms = 0
          /\ \E r \in {StopMonitoring(monitoring, [timers EXCEPT ![i].live = FALSE], mhist,
                                      timers[i].hash,
                                      IF timers[i].hash \in DOMAIN monitoring
                                         /\ monitoring[timers[i].hash] = i - 1
                                      THEN "ownTimer" ELSE "earlierTimer")} :
                /\ monitoring' = r.monitoring
                /\ timers' = r.timers
                /\ mhist' = r.mhist
    /\ UNCHANGED <<polls, chromeNotifications, storedNotifications>>
    /\ UNCHANGED <<page, pcall, sent, engineVars, redeemVars, payVars, backendVars>>

\* time passes, up to the next auto-stop deadline; an expired timeout runs
\* first, and an interval is due once its period has passed
TimePasses ==
    /\ \E i \in LiveTimers("interval") \cup LiveTimers("timeout") : timers[i].ms > 0
    /\ \A i \in LiveTimers("timeout") : timers[i].ms > 0
    /\ LET deadlines == {timers[i].ms : i \in LiveTimers("timeout")} \cup {MonitorStepMs}
           d == CHOOSE d \in deadlines : \A e \in deadlines : d <= e
       IN timers' = [i \in DOMAIN timers |->
                        IF timers[i].live
                        THEN [timers[i] EXCEPT !.ms = IF @ > d THEN @ - d ELSE 0]
                        ELSE timers[i]]
    /\ UNCHANGED <<monitoring, polls, chromeNotifications, storedNotifications, mhist>>
    /\ UNCHANGED <<page, pcall, sent, engineVars, redeemVars, payVars, backendVars>>

\* a service worker that runs no content script
NoContentScript ==
    /\ page = [hostname |-> HostOther, pathname |-> PathHome, dom |-> << >>]
    /\ pcall = NoCall
    /\ currentPlatform = NoPlatform
    /\ payButton = Null
    /\ isInitialized = FALSE
    /\ observer = Null
    /\ listening = FALSE
    /\ readyState = "complete"
    /\ initPc = "returned"
    /\ detectionTimeout = Null
    /\ loadTimeout = Null
    /\ mounted = 0
    /\ sent = NoMessages
    /\ hist = NoHistory
    /\ attempts = NoAttempts
    /\ inputValue = << >>
    /\ rhist = NoRedeemHistory
    /\ notifications = NoNotifications
    /\ lastPayment = Null
    /\ phist = NoPayHistory

MonitorInit == NoContentScript /\ MonitorIdle /\ BackendIdle

MonitorNext ==
    \/ MonitorTransaction
    \/ StopAllMonitoring
    \/ IntervalFires
    \/ PollReturns
    \/ StorageGetReturns
    \/ StorageSetReturns
    \/ AutoStopFires
    \/ TimePasses

MonitorSpec == MonitorInit /\ [][MonitorNext]_vars

(***************************************************************************)
(* BackendSpec: POST /:giftCardId/redeem of the gift card routes.  Each    *)
(* request is a run of the handler; the handlers of concurrent requests    *)
(* interleave at their awaits, and database.get and database.run are two   *)
(* statements of one connection, outside any transaction (db.ts).          *)
(***************************************************************************)
MaxRequests == 2
MaxServerTime == 2

CardId == "gc_1"
UnknownId == "gc_0"

\* the address the card was created for, the same address in lower case,
\* another address, and a string that is no address
RecipientWallet == <<"0", "x", "A", "b">>
LowerWallet == <<"0", "x", "a", "b">>
OtherWallet == <<"0", "x", "c", "d">>
NoWallet == <<"a", "b">>

\* a body without the optional redeemAddress
NoAddress == << >>

\* an expires_at column that holds a time, in hours
At(t) == [time |-> t]

\* express-validator's isEthereumAddress, on the addresses drawn
IsEthereumAddress(w) == w \in {RecipientWallet, LowerWallet, OtherWallet}

NoResponse == [status |-> 0, error |-> "none"]
Validation400 == [status |-> 400, error |-> "Validation failed"]
NotFound404 == [status |-> 404, error |-> "Gift card not found"]
Forbidden403 == [status |-> 403, error |-> "Only the recipient can redeem this gift card"]
Expired410 == [status |-> 410, error |-> "Gift card has expired"]
Redeemed410 == [status |-> 410, error |-> "Gift card has already been redeemed"]
Success200 == [status |-> 200, error |-> "none"]

\* the row POST /create inserts: status 'active', the recipient as given
ActiveCard(expires_at) ==
    [status |-> "active", recipient_wallet |-> RecipientWallet, expires_at |-> expires_at,
     redeemed_by |-> Null, updates |-> 0]

\* SELECT * FROM gift_cards WHERE gift_card_id = ?
SelectCard(table, id) == IF id \in DOMAIN table THEN table[id] ELSE Null

\* the checks of the handler on the row it read, in their order; NoResponse
\* when all pass
RedeemChecks(giftCard, walletAddress, now) ==
    IF giftCard = Null THEN NotFound404
    ELSE IF ToLowerCase(giftCard.recipient_wallet) # ToLowerCase(walletAddress)
    THEN Forbidden403
    ELSE IF giftCard.expires_at # Null /\ giftCard.expires_at.time < now THEN Expired410
    ELSE IF giftCard.status = "redeemed" THEN Redeemed410
    ELSE NoResponse

\* UPDATE gift_cards SET status = 'redeemed', redeemed_by = ? WHERE gift_card_id = ?
UpdateRedeemed(table, id, by) ==
    IF id \in DOMAIN table
    THEN [table EXCEPT ![id].status = "redeemed", ![id].redeemed_by = by,
                       ![id].updates = @ + 1]
    ELSE table

\* a request arrives: the validators run, then the handler up to
\* `await database.get`
ReceiveRedeem ==
    /\ Len(requests) < MaxRequests
    /\ \E giftCardId \in {CardId, UnknownId},
          walletAddress \in {RecipientWallet, LowerWallet, OtherWallet, NoWallet},
          redeemAddress \in {NoAddress, OtherWallet} :
          requests' = Append(requests,
              [giftCardId |-> giftCardId, walletAddress |-> walletAddress,
               redeemAddress |-> redeemAddress, giftCard |-> Null,
               pc |-> IF IsEthereumAddress(walletAddress) THEN "get" ELSE "done",
               response |-> IF IsEthereumAddress(walletAddress) THEN NoResponse
                            ELSE Validation400])
    /\ UNCHANGED <<giftCards, serverTime>>
    /\ UNCHANGED <<page, pcall, sent, engineVars, redeemVars, payVars, monitorVars>>

\* the database runs the SELECT of a request
DatabaseGets ==
    /\ \E r \in DOMAIN requests :
          /\ requests[r].pc = "get"
          /\ requests' = [requests EXCEPT ![r].pc = "got",
                             ![r].giftCard = SelectCard(giftCards, requests[r].giftCardId)]
    /\ UNCHANGED <<giftCards, serverTime>>
    /\ UNCHANGED <<page, pcall, sent, engineVars, redeemVars, payVars, monitorVars>>

\* database.get returns to the handler: it checks the row it was given and
\* answers, or calls database.run with the UPDATE
GetReturns ==
    /\ \E r \in DOMAIN requests :
          /\ requests[r].pc = "got"
          /\ \E answer \in {RedeemChecks(requests[r].giftCard, requests[r].walletAddress,
                                         serverTime)} :
                requests' = [requests EXCEPT
                                ![r].pc = IF answer = NoResponse THEN "run" ELSE "done",
                                ![r].response = answer]
    /\ UNCHANGED <<giftCards, serverTime>>
    /\ UNCHANGED <<page, pcall, sent, engineVars, redeemVars, payVars, monitorVars>>

\* the database runs the UPDATE and database.run returns: the handler sends
\* the success response
RunReturns ==
    /\ \E r \in DOMAIN requests :
          /\ requests[r].pc = "run"
          /\ giftCards' = UpdateRedeemed(giftCards, requests[r].giftCardId,
                                         IF requests[r].redeemAddress # NoAddress
                                         THEN requests[r].redeemAddress
                                         ELSE requests[r].walletAddress)
          /\ requests' = [requests EXCEPT ![r].pc = "done", ![r].response = Success200]
    /\ UNCHANGED serverTime
    /\ UNCHANGED <<page, pcall, sent, engineVars, redeemVars, payVars, monitorVars>>

\* an hour passes on the server
ServerClockAdvances ==
    /\ serverTime < MaxServerTime
    /\ serverTime' = serverTime + 1
    /\ UNCHANGED <<giftCards, requests>>
    /\ UNCHANGED <<page, pcall, sent, engineVars, redeemVars, payVars, monitorVars>>

\* the table holds one card POST /create stored, with or without an expiry
BackendInit ==
    /\ NoContentScript
    /\ MonitorIdle
    /\ giftCards \in {(CardId :> ActiveCard(e)) : e \in {Null, At(1)}}
    /\ requests = << >>
    /\ serverTime = 0

BackendNext ==
    \/ ReceiveRedeem
    \/ DatabaseGets
    \/ GetReturns
    \/ RunReturns
    \/ ServerClockAdvances

BackendSpec == BackendInit /\ [][BackendNext]_vars

(***************************************************************************)
(* Properties                                                              *)
(***************************************************************************)
\* C9: each profile's parser maps "$1,234.56" to (1234.56, USD),
\* "Total: <pound>12.99" to (12.99, GBP), "15.99 USD" to (15.99, USD),
\* "<euro>14.50" to (14.50, EUR), and text without a number to null
C9_ParserExamples ==
    pcall.op = "parsePrice" =>
        /\ pcall.text = TxtGrouped => pcall.result = Price(123456, USD)
        /\ pcall.text = TxtLabelled => pcall.result = Price(1299, GBP)
        /\ pcall.text = TxtCodeAfter => pcall.result = Price(1599, USD)
        /\ pcall.text = TxtEuro => pcall.result = Price(1450, EUR)
        /\ pcall.text \in NonNumericTexts => pcall.result = Null

\* C10: getCheckoutInfo returns null or a snapshot with every field set
\* and at least one line item
C10_SnapshotFull ==
    (pcall.op = "getCheckoutInfo" /\ pcall.result # Null) =>
        /\ pcall.result.platform = pcall.platform
        /\ pcall.result.totalAmount >= 0
        /\ Len(pcall.result.currency) = 3
        /\ pcall.result.checkoutUrl = <<page.hostname, page.pathname>>
        /\ pcall.result.timestamp = pcall.ts
        /\ Len(pcall.result.items) >= 1

\* C4: signals that each arrive less than the debounce window after the
\* previous one produce exactly one re-scan, and it runs one window after
\* the last signal: while the timer is pending no re-scan has run since the
\* last signal and the timer expires exactly DebounceMs after it; once it
\* has fired exactly one re-scan has run, DebounceMs after the last signal
C4_DebounceOneRescan ==
    hist.signalled =>
        IF detectionTimeout # Null
        THEN hist.rescans = 0 /\ hist.sinceSignal + detectionTimeout.ms = DebounceMs
        ELSE hist.rescans = 1 /\ hist.sinceSignal = DebounceMs

\* a burst of at least two signals has been served by its one re-scan
C4_Witness ==
    /\ hist.lastBurst >= 2
    /\ hist.rescans = 1
    /\ detectionTimeout = Null

\* C5: at most one pay affordance is mounted at any moment, and the one the
\* script holds is the one mounted, however often the injection path runs
C5_OneAffordance ==
    /\ mounted <= 1
    /\ payButton # Null => mounted = 1
    /\ ~hist.cleaned => sent.PAY_BUTTON_INJECTED = mounted

\* the initial detection and two re-scans have run against a checkout with
\* one affordance mounted
C5_Witness ==
    /\ mounted = 1
    /\ hist.scans >= 2
    /\ ~hist.cleaned

\* C6: after cleanup no callback of the engine runs and no observer is
\* connected
C6_QuietAfterCleanup ==
    hist.cleaned => (hist.afterCleanup = {} /\ observer = Null)

\* C1: at most one redemption attempt is in flight at any time
C1_OneAttemptInFlight ==
    Cardinality({k \in DOMAIN attempts : InFlight(attempts[k])}) <= 1

\* C2: an attempt that submitted its code on a page where no success
\* indicator ever appeared and the total never decreased ends Failed
C2_NoIndicatorFails ==
    \A k \in DOMAIN attempts :
        (attempts[k].submits >= 1 /\ attempts[k].outcome # "none" /\ ~rhist.indicatorEver)
            => attempts[k].outcome = "failed"

\* C3: an attempt whose verification ran on a page where a success
\* heuristic held ends Succeeded
C3_HeuristicSucceeds ==
    \A k \in DOMAIN attempts :
        (attempts[k].verified /\ attempts[k].held /\ attempts[k].outcome # "none")
            => attempts[k].outcome = "succeeded"

\* C7: an apply-gift-card command whose handling has ended has produced
\* exactly one gift-code-applied notification
C7_OneNotification ==
    \A k \in DOMAIN attempts : ~InFlight(attempts[k]) => attempts[k].notified = 1

\* C8: for each command the code is submitted at most once
C8_SubmittedAtMostOnce ==
    \A k \in DOMAIN attempts : attempts[k].submits <= 1

\* an attempt has submitted its code once and has ended Failed
C8_Witness ==
    \E k \in DOMAIN attempts :
        /\ attempts[k].pc = "done"
        /\ attempts[k].outcome = "failed"
        /\ attempts[k].submits = 1
        /\ attempts[k].notified = 1

\* a value getCheckoutInfo may return: null or a snapshot record
IsSnapshotOrNull(r) ==
    \/ r = Null
    \/ DOMAIN r = {"platform", "totalAmount", "currency", "items", "checkoutUrl", "timestamp"}

\* C11: getCheckoutInfo never throws: on every page, with elements
\* missing or price text that does not parse, the call returns a snapshot
\* or null and leaves the page and the engine state as they were
C11_GetCheckoutInfoNeverThrows ==
    [][(pcall.op = "none" /\ pcall'.op = "getCheckoutInfo") =>
          /\ IsSnapshotOrNull(pcall'.result)
          /\ page' = page
          /\ sent' = sent
          /\ engineVars' = engineVars]_vars

\* getCheckoutInfo has returned null on a page of the profile whose first
\* total element holds text without a price
C11_Witness ==
    /\ pcall.op = "getCheckoutInfo"
    /\ page.hostname = HostOf(pcall.platform)
    /\ querySelector(page, TotalChain(pcall.platform)[1]) = El(TxtFree)
    /\ pcall.result = Null

\* C12: detectCurrentPlatform returns the first profile of the registry
\* order Amazon, Netflix, Dominos whose isDetected is true, and null when
\* none is: the result is one profile at most
C12_FirstDetectedWins ==
    pcall.op = "detectCurrentPlatform" =>
        LET hits == {i \in DOMAIN PLATFORM_LIST : IsDetected(PLATFORM_LIST[i], page)}
        IN /\ pcall.result \in Platforms \cup {NoPlatform}
           /\ hits = {} => pcall.result = NoPlatform
           /\ hits # {} =>
                 pcall.result = PLATFORM_LIST[CHOOSE i \in hits : \A j \in hits : i <= j]

\* detectCurrentPlatform has returned Amazon on a page that Netflix and
\* Dominos detect as well
C12_Witness ==
    /\ pcall.op = "detectCurrentPlatform"
    /\ AmazonIsDetected(page) /\ NetflixIsDetected(page)
    /\ pcall.result = "amazon"

DomainsOf(platform) ==
    CASE platform = "amazon" -> AmazonDomains
      [] platform = "netflix" -> NetflixDomains
      [] platform = "dominos" -> DominosDomains

\* the hostname is one of the domains or a subdomain of one
AllowListed(hostname, domains) ==
    \E i \in DOMAIN domains :
        \/ hostname = domains[i]
        \/ /\ Len(hostname) > Len(domains[i])
           /\ SubSeq(hostname, Len(hostname) - Len(domains[i]), Len(hostname))
                 = <<".">> \o domains[i]

\* some selector of the chain matches an element of the page
ChainResolves(pg, chain) == \E i \in DOMAIN chain : chain[i] \in DOMAIN pg.dom

\* C13: isDetected of a profile is false on every hostname that is neither
\* one of the profile's allow-listed domains nor a subdomain of one,
\* whatever the path and the page structure
C13_OffListNeverDetected ==
    (pcall.op = "isDetected"
       /\ ~AllowListed(page.hostname, DomainsOf(pcall.platform))) => pcall.result = FALSE

\* C14: on an allow-listed hostname isDetected of a profile is true
\* whenever a selector of its total price, redemption section, redemption
\* input or apply action chain resolves, whatever the path
C14_StructuralProbeDetects ==
    (pcall.op = "isDetected"
       /\ AllowListed(page.hostname, DomainsOf(pcall.platform))
       /\ \E chain \in {"totalPrice", "giftCardSection", "giftCardInput", "applyButton"} :
             ChainResolves(page, SelectorsOf(pcall.platform)[chain])) => pcall.result = TRUE

\* C15: once a platform is detected and the pay button is mounted, a
\* re-scan leaves the active platform and the button as they are, mounts
\* nothing and sends nothing to the background script
C15_RescanIsNoOp ==
    [][(hist'.scans = hist.scans + 1 /\ currentPlatform # NoPlatform /\ payButton # Null) =>
          /\ currentPlatform' = currentPlatform
          /\ payButton' = payButton
          /\ mounted' = mounted
          /\ sent' = sent]_vars

\* two re-scans have run and the button was mounted once and is still
\* there: the later re-scan found the platform detected and the button
\* mounted, on a page whose total parses
C15_Witness ==
    /\ hist.scans >= 2
    /\ ~hist.cleaned
    /\ currentPlatform # NoPlatform
    /\ payButton # Null
    /\ mounted = 1
    /\ sent.PAY_BUTTON_INJECTED = 1
    /\ extractTotalPrice(currentPlatform, page) # Null

\* C20: a client-side navigation that changes the URL without a page load
\* schedules a debounced re-scan as a node insertion does: after a
\* navigation made while the page is observed, a re-scan is pending until
\* one has run
C20_NavigationSchedulesRescan ==
    (hist.unscanned /\ ~hist.cleaned) => detectionTimeout # Null

\* C16: a click on the button re-runs the extraction; INITIATE_CRYPTO_PAYMENT
\* is sent only if that extraction returned a snapshot, it carries that
\* snapshot and the button then shows loading; if the extraction returned
\* null nothing is sent and the button does not enter loading
C16_ClickSendsFreshSnapshot ==
    [][(phist'.events = phist.events + 1 /\ phist'.clicked) =>
          LET fresh == getCheckoutInfo(currentPlatform, page, phist'.ts)
          IN IF fresh = Null
             THEN /\ sent' = sent
                  /\ lastPayment' = lastPayment
                  /\ payButton'.look = payButton.look
             ELSE \/ sent' = sent
                  \/ /\ sent' = SendMessage(sent, "INITIATE_CRYPTO_PAYMENT")
                     /\ lastPayment'.checkoutInfo = fresh
                     /\ payButton'.look = "loading"]_vars

\* the total has changed since detection and a click has sent a snapshot
\* with the new total; the button shows loading
C16_Witness ==
    /\ phist.clicked
    /\ phist.delivery = "pending"
    /\ pcall.result # Null
    /\ lastPayment # Null
    /\ lastPayment.checkoutInfo.totalAmount # pcall.result.totalAmount
    /\ lastPayment.checkoutInfo.timestamp = phist.ts
    /\ payButton.look = "loading"

\* C17: when the delivery of the message of a pay flow has failed (the send
\* threw or was rejected later) the button has left loading and shows error
C17_DeliveryFailureShowsError ==
    (phist.delivery \in {"threw", "rejected"} /\ payButton # Null) => payButton.look = "error"

\* C18: the look of the button changes from loading to success on
\* PAYMENT_COMPLETED and from loading to error on PAYMENT_FAILED: after
\* the command the button shows success, respectively error
C18_CommandsSetOutcomeLook ==
    (payButton # Null /\ ~hist.cleaned) =>
        /\ phist.lastCommand = "PAYMENT_COMPLETED" => payButton.look = "success"
        /\ phist.lastCommand = "PAYMENT_FAILED" => payButton.look = "error"

\* C19: when a redemption attempt has ended Failed, the mounted button
\* shows error and a failure notification has been shown to the user
C19_FailedShowsError ==
    \A k \in DOMAIN attempts :
        (attempts[k].pc = "done" /\ attempts[k].outcome = "failed" /\ payButton # Null) =>
            payButton.look = "error" /\ notifications.error >= 1

\* C21: a detection that finds a platform but no injection point mounts
\* nothing and shows nothing to the user; a re-scan that finds the platform
\* and an injection point while no button is held mounts the button, and
\* then exactly one is mounted
C21_DeferredInjection ==
    [][((hist'.scans = hist.scans + 1 \/ (initPc = "resolved" /\ initPc' = "initialized"))
          /\ payButton = Null /\ detectCurrentPlatform(page) # NoPlatform) =>
          IF getButtonInjectionPoint(detectCurrentPlatform(page), page) = Absent
          THEN /\ payButton' = Null
               /\ mounted' = mounted
               /\ sent'.PAY_BUTTON_INJECTED = sent.PAY_BUTTON_INJECTED
               /\ notifications' = notifications
          ELSE /\ payButton' = CreatePayButton(detectCurrentPlatform(page))
               /\ mounted' = 1
               /\ sent'.PAY_BUTTON_INJECTED = sent.PAY_BUTTON_INJECTED + 1]_vars

\* a re-scan has mounted the button after an earlier detection of the
\* platform had reported the checkout and mounted nothing
C21_Witness ==
    /\ ~hist.cleaned
    /\ hist.scans >= 1
    /\ sent.CHECKOUT_INFO_DETECTED >= 2
    /\ sent.PAY_BUTTON_INJECTED = 1
    /\ payButton # Null
    /\ mounted = 1

\* C22: while no profile detects the page the engine has no observable
\* effect: no step on such a page, the initial detection and every re-scan
\* included, sends a message, mounts a button or shows a notification
C22_SilentWhenUndetected ==
    [][detectCurrentPlatform(page) = NoPlatform =>
          /\ sent' = sent
          /\ mounted' <= mounted
          /\ payButton' \in {payButton, Null}
          /\ notifications' = notifications]_vars

\* the script is initialized on a supported domain, a re-scan has run on a
\* page with elements that no profile detects, and nothing was sent,
\* mounted or shown
C22_Witness ==
    /\ isInitialized
    /\ ~hist.cleaned
    /\ hist.rescans >= 1
    /\ DOMAIN page.dom # {}
    /\ detectCurrentPlatform(page) = NoPlatform
    /\ currentPlatform = NoPlatform
    /\ sent = NoMessages
    /\ mounted = 0
    /\ notifications = NoNotifications

\* C23: in every profile an attempt that has typed its whole code and goes
\* on while no element of the profile's apply button chain is on the page
\* submits by the Enter key and waits for the verification, and does not
\* end before submission
C23_EnterFallback ==
    [][\A k \in DOMAIN attempts :
          (/\ attempts[k].pc \in {"focused", "typing"}
           /\ attempts[k].typed = Len(attempts[k].code)
           /\ attempts'[k].pc \notin {attempts[k].pc, "destroyed"}
           /\ \A i \in 1..Len(SelectorsOf(currentPlatform).applyButton) :
                 SelectorsOf(currentPlatform).applyButton[i] \notin DOMAIN page.dom)
          => /\ attempts'[k].pc = "settling"
             /\ attempts'[k].submits = attempts[k].submits + 1]_vars

\* C24: an attempt that ends Failed because the gift card section is not
\* found (at the call or after a wait for an expand link or a navigation)
\* has not typed or submitted anything, leaves the input as it is, and has
\* not navigated the page
C24_UnresolvedSectionNoEffects ==
    [][/\ \A k \in DOMAIN attempts :
             (/\ attempts[k].pc \in {"expanding", "navigating"}
              /\ attempts'[k].pc = "done"
              /\ attempts'[k].outcome = "failed")
             => /\ attempts[k].pc # "navigating"
                /\ attempts'[k].typed = 0
                /\ attempts'[k].submits = 0
                /\ inputValue' = inputValue
       /\ (/\ Len(attempts') = Len(attempts) + 1
           /\ currentPlatform # NoPlatform
           /\ attempts'[Len(attempts')].pc = "done")
          => /\ inputValue' = inputValue
             /\ rhist'.linkClicked = rhist.linkClicked
             /\ rhist'.leaving = rhist.leaving]_vars

\* C25: the total counts as a sign of success only when it is lower than it
\* was before the submission: on the profiles that look at the total, an
\* attempt that ended Succeeded was verified on a page where a success text,
\* a balance or discount element, or a decreased total was present
C25_TotalHeuristicNeedsDecrease ==
    \A k \in DOMAIN attempts :
        (/\ currentPlatform \in {"amazon", "dominos"}
         /\ attempts[k].verified
         /\ attempts[k].outcome = "succeeded")
        => attempts[k].held

\* C26: the total of getCheckoutInfo is read from the first element that the
\* profile's total extraction resolves (its total-price chain, then its
\* second source of a total): when nothing resolves or the text of that
\* first element does not parse the call returns null, and otherwise the
\* snapshot carries the amount and currency parsed from it
C26_FirstResolvedDecides ==
    pcall.op = "getCheckoutInfo" =>
        LET texts == TotalTexts(pcall.platform, page)
        IN IF Len(texts) = 0 \/ ParsePrice(pcall.platform, texts[1]) = Null
           THEN pcall.result = Null
           ELSE /\ pcall.result # Null
                /\ pcall.result.totalAmount = ParsePrice(pcall.platform, texts[1]).amount
                /\ pcall.result.currency = ParsePrice(pcall.platform, texts[1]).currency

\* C27: every profile's parser returns the currency that the table ($ USD,
\* pound GBP, euro EUR, rupee INR) gives to the symbol of the amount it
\* parsed: a rupee-prefixed amount is INR in every profile, and in a text
\* with two symbols the currency is that of the symbol in front of the
\* amount returned
C27_CurrencyOfMatchedSymbol ==
    pcall.op = "parsePrice" =>
        /\ pcall.text = TxtDollar => pcall.result = Price(2599, USD)
        /\ pcall.text = TxtEuro => pcall.result = Price(1450, EUR)
        /\ pcall.text = TxtLabelled => pcall.result = Price(1299, GBP)
        /\ pcall.text = TxtRupee => pcall.result = Price(49900, INR)
        /\ pcall.text = TxtTwoSyms => pcall.result \in {Price(49900, INR), Price(500, USD)}

\* C28: in every profile each character of the code is typed by its own
\* step: the step appends that one character to the value of the input and
\* dispatches an input and a change event before the next character
C28_TypedCharByChar ==
    [][\A k \in DOMAIN attempts :
          attempts'[k].typed # attempts[k].typed =>
             /\ attempts'[k].typed = attempts[k].typed + 1
             /\ inputValue' = Append(inputValue, attempts[k].code[attempts'[k].typed])
             /\ attempts'[k].inputEvents = attempts[k].inputEvents + 1
             /\ attempts'[k].changeEvents = attempts[k].changeEvents + 1]_vars

\* C29: the number of expand links an attempt clicks, and so the number of
\* times it looks for the section again, is limited by a constant that does
\* not depend on the page: it stays below the number of expand links of a
\* page that carries MaxExpandLinks of them, however large that number is
C29_ExpandClicksBounded ==
    \A k \in DOMAIN attempts : attempts[k].link < MaxExpandLinks

\* C30: in the step in which an attempt clicks the apply button or
\* dispatches the Enter key, the value of the input is that attempt's code,
\* however the steps of other commands' attempts fall between its waits
C30_SubmitsOwnCode ==
    [][\A k \in DOMAIN attempts :
          attempts'[k].submits = attempts[k].submits + 1 => inputValue = attempts[k].code]_vars

\* C31: the report of a redemption attempt is sent and names the platform
\* the attempt was started on, also when a re-scan has run during the
\* attempt's waits and has changed or cleared the current platform
C31_ReportNamesStartPlatform ==
    \A k \in DOMAIN attempts :
        attempts[k].pc = "done" => attempts[k].reportedAs = attempts[k].platform

\* C32: while the button shows loading no step sends another
\* INITIATE_CRYPTO_PAYMENT message: a click on a loading button starts no
\* second pay flow
C32_OnePayFlowOutstanding ==
    [][(payButton # Null /\ payButton.look = "loading") =>
          sent'.INITIATE_CRYPTO_PAYMENT = sent.INITIATE_CRYPTO_PAYMENT]_vars

C35_OwnInsertionsSettle ==
    /\ [][((mounted' = mounted + 1 \/ CountShown(notifications') > CountShown(notifications))
             /\ observer = Connected)
          => detectionTimeout' = Timer(DebounceMs)]_vars
    /\ <>[](detectionTimeout = Null)

\* a notification was shown, a re-scan has mounted the button, the re-scan
\* that mounting caused has run as well, and no timer is pending
C35_Witness ==
    /\ CountShown(notifications) >= 1
    /\ payButton # Null
    /\ mounted = 1
    /\ hist.scans >= 2
    /\ hist.rescans >= 1
    /\ detectionTimeout = Null

\* C36: a re-scan runs only when the debounce timer has expired, a full
\* DebounceMs after the most recent observer signal; every signal, whatever
\* is left of a pending timer, leaves the one timer armed with the whole
\* window, so a re-scan follows a signal only once signals pause for a window
C36_RescanAfterFullWindow ==
    [][/\ hist'.scans = hist.scans + 1 =>
             /\ hist.signalled
             /\ detectionTimeout = Expired
             /\ hist.sinceSignal = DebounceMs
       /\ (hist'.burst >= 1 /\ (hist'.burst = hist.burst + 1 \/ hist'.scans = hist.scans + 1)) =>
             /\ detectionTimeout' = Timer(DebounceMs)
             /\ hist'.sinceSignal = 0
             /\ hist'.rescans = 0]_vars

\* a signal arrived while the timer of an earlier one was pending, and the
\* re-scan of the burst has run, one window after its last signal
C36_Witness ==
    /\ hist.lastBurst >= 2
    /\ hist.scans >= 1
    /\ hist.sinceSignal = DebounceMs
    /\ detectionTimeout = Null
    /\ ~hist.cleaned

\* C37: a button reference the script holds after a re-scan is an element of
\* the page: a re-scan that runs after the page removed the mounted button
\* mounts a button again
C37_RescanRemounts ==
    [][(hist'.scans = hist.scans + 1 /\ ~hist.cleaned /\ payButton' # Null) =>
          mounted' = 1]_vars

\* C38: at most one polling interval is set per transaction hash, and a
\* session ends only on a terminal status, on a stop, or when the auto-stop
\* timeout it set itself fires, never when the timeout of an earlier session
\* for the same hash fires
C38_SessionEndsByItsOwnTimer ==
    /\ \A h \in Hashes :
          Cardinality({i \in LiveTimers("interval") : timers[i].hash = h}) <= 1
    /\ \A k \in DOMAIN mhist.sessions :
          mhist.sessions[k].ended \in {"no", "terminal", "stop", "ownTimer"}

\* C39: a gift card is redeemed at most once: of the requests for one card
\* at most one is answered with success and marks the card redeemed, and
\* every other request of the recipient for the card, while it has not
\* expired, is answered with the already-redeemed error
C39_RedeemedAtMostOnce ==
    /\ Cardinality({r \in DOMAIN requests :
                       requests[r].giftCardId = CardId /\ requests[r].response = Success200}) <= 1
    /\ giftCards[CardId].updates <= 1
    /\ \A r, q \in DOMAIN requests :
          (/\ r # q
           /\ requests[r].giftCardId = CardId /\ requests[q].giftCardId = CardId
           /\ requests[r].response = Success200
           /\ requests[q].pc = "done"
           /\ requests[q].response \notin {Validation400, Forbidden403, Expired410})
          => requests[q].response = Redeemed410

====
